---- MODULE Spec2Model ----
(***************************************************************************)
(* Model of the command-generation pipeline of spot-rl-example:            *)
(* OnnxControllerContext / StateHandler / OnnxCommandGenerator             *)
(* (rl_deploy/orbit/onnx_command_generator.py) with the joint tables of    *)
(* rl_deploy/spot/constants.py and rl_deploy/orbit/orbit_constants.py.     *)
(*                                                                         *)
(* Arithmetic is exact fixed point.  A soft margin m is kept as the        *)
(* integer m * MarginDen; a safe limit and every joint position is kept    *)
(* in units of 1 / (2 * MarginDen) of the hard-limit unit, so that         *)
(*   middle -/+ margin * full_range / 2                                    *)
(* is the integer MarginDen * (lower + upper) -/+ m * (upper - lower).     *)
(* The warm-up factor 0.1 * count is kept as count / RampDen.              *)
(***************************************************************************)
EXTENDS Integers, Sequences, FiniteSets, TLC

\* ------------------------------------------------------------------ bounds
MaxCalls == 11          \* invocations of the generator in one run
MaxTime == 2            \* sensor snapshots delivered in one run
MaxHard == 2            \* hard limits are drawn from -MaxHard .. MaxHard

\* --------------------------------------------------------------- constants
MarginDen == 1000000    \* soft margins are written with six decimals
RampDen == 10           \* test_scale = min(0.1 * count, 1.0)
ControlPeriod == 100    \* end_time = observation time + 0.1 s, in ms
ExtrapolationNanos == 5000000
None == [ none |-> TRUE ]  \* Python None
NoJoint == ""             \* no joint blamed
NoPose == << >>           \* Python None where a joint list is expected

Min(a, b) == IF a < b THEN a ELSE b

\* ------------------------------------------------------------ joint tables
ORDERED_JOINT_NAMES_SPOT_BASE ==
  << "fl_hx", "fl_hy", "fl_kn", "fr_hx", "fr_hy", "fr_kn",
     "hl_hx", "hl_hy", "hl_kn", "hr_hx", "hr_hy", "hr_kn" >>

ORDERED_JOINT_NAMES_SPOT_ARM ==
  << "arm_sh0", "arm_sh1", "arm_el0", "arm_el1", "arm_wr0", "arm_wr1",
     "arm_f1x" >>

ORDERED_JOINT_NAMES_SPOT ==
  ORDERED_JOINT_NAMES_SPOT_BASE \o ORDERED_JOINT_NAMES_SPOT_ARM

ORDERED_JOINT_NAMES_BASE_ISAAC ==
  << "fl_hx", "fl_hy", "fl_kn", "hl_hx", "hl_hy", "hl_kn",
     "fr_hx", "fr_hy", "fr_kn", "hr_hx", "hr_hy", "hr_kn" >>

\* The soft-margin dict in insertion order: <<joint, min_margin, max_margin>>,
\* margins times MarginDen.
JOINT_SOFT_LIMITS ==
  << <<"fl_hx", 541525, 629967>>, <<"fl_hy", 244991, 450403>>,
     <<"fl_kn", 283921, 1000000>>, <<"fr_hx", 667273, 500081>>,
     <<"fr_hy", 217532, 357181>>, <<"fr_kn", 425193, 1000000>>,
     <<"hl_hx", 477865, 600584>>, <<"hl_hy", 325119, 623534>>,
     <<"hl_kn", 442601, 860269>>, <<"hr_hx", 656397, 483916>>,
     <<"hr_hy", 384144, 603661>>, <<"hr_kn", 195063, 865289>> >>

Range(s) == { s[i] : i \in DOMAIN s }

IndexOf(s, x) == CHOOSE i \in DOMAIN s : s[i] = x

\* ---------------------------------------------------------- dict_tools
\* What find_ordering leaves its caller with when it raises OrderingError;
\* no permutation holds the index 0.
OrderingError == << 0 >>

HasDuplicate(s) == \E i, j \in DOMAIN s : i # j /\ s[i] = s[j]

\* Duplicate names are let through.
find_ordering_unchecked(source, target) ==
  IF Range(source) # Range(target) THEN OrderingError
  ELSE [ i \in DOMAIN target |-> IndexOf(source, target[i]) ]

\* find_ordering(source, target): perm with target[i] = source[perm[i]];
\* fails unless both are orderings of one name set without duplicates.
find_ordering(source, target) ==
  IF \/ Range(source) # Range(target)
     \/ HasDuplicate(source)
     \/ HasDuplicate(target)
  THEN OrderingError
  ELSE [ i \in DOMAIN target |-> IndexOf(source, target[i]) ]

\* reorder(values, ordering)
reorder(values, ordering) ==
  [ i \in DOMAIN ordering |-> values[ordering[i]] ]

\* dict_to_list(d, names)
dict_to_list(d, names) == [ i \in DOMAIN names |-> d[names[i]] ]

\* ------------------------------------------------------------ PolicyConfig
\* The configuration handed to the generator: gains per joint (kd in
\* hundredths), default joint positions, action scale.
JointKind(name) ==
  IF name \in {"fl_hx", "fr_hx", "hl_hx", "hr_hx"} THEN "hx"
  ELSE IF name \in {"fl_hy", "fr_hy", "hl_hy", "hr_hy"} THEN "hy"
  ELSE IF name \in {"fl_kn", "fr_kn", "hl_kn", "hr_kn"} THEN "kn"
  ELSE "arm"

Config ==
  [ kp |-> [ n \in Range(ORDERED_JOINT_NAMES_SPOT) |->
               CASE JointKind(n) = "hx" -> 624
                 [] JointKind(n) = "hy" -> 936
                 [] JointKind(n) = "kn" -> 286
                 [] OTHER -> 102 ],
    kd |-> [ n \in Range(ORDERED_JOINT_NAMES_SPOT) |->
               CASE JointKind(n) = "hx" -> 520
                 [] JointKind(n) = "hy" -> 520
                 [] JointKind(n) = "kn" -> 204
                 [] OTHER -> 204 ],
    default_joints |-> [ n \in Range(ORDERED_JOINT_NAMES_SPOT) |->
               1000 * IndexOf(ORDERED_JOINT_NAMES_SPOT, n) ],
    action_scale |-> 2 ]

\* ------------------------------------------------- _generate_safe_limits
\* One entry of the table, <<joint, min_val, max_val>>, from the hard limits
\* lim = [lower, upper] and the margins of one soft-limit item.
\* The halving of the range is forgotten.
SafeLimitEntryWholeRange(lim, soft) ==
  LET middle2 == lim.lower + lim.upper
      full_range == lim.upper - lim.lower
  IN << soft[1], MarginDen * middle2 - 2 * soft[2] * full_range,
        MarginDen * middle2 + 2 * soft[3] * full_range >>

\* The two margins are unpacked in the wrong order.
SafeLimitEntrySwapped(lim, soft) ==
  LET middle2 == lim.lower + lim.upper
      full_range == lim.upper - lim.lower
  IN << soft[1], MarginDen * middle2 - soft[3] * full_range,
        MarginDen * middle2 + soft[2] * full_range >>

SafeLimitEntry(lim, soft) ==
  LET lower == lim.lower
      upper == lim.upper
      middle2 == lower + upper            \* twice the middle
      full_range == upper - lower
      min_margin == soft[2]
      max_margin == soft[3]
      min_val == MarginDen * middle2 - min_margin * full_range
      max_val == MarginDen * middle2 + max_margin * full_range
  IN << soft[1], min_val, max_val >>

\* The table as the items of the dict, in insertion order: the loop over the
\* soft limits keeps the joints that the hard limits know.
RECURSIVE GenerateSafeLimitsFrom(_, _, _)
GenerateSafeLimitsFrom(hard_limits, margins, i) ==
  IF i > Len(margins) THEN << >>
  ELSE LET joint_name == margins[i][1]
           rest == GenerateSafeLimitsFrom(hard_limits, margins, i + 1)
       IN IF joint_name \in DOMAIN hard_limits
          THEN << SafeLimitEntry(hard_limits[joint_name], margins[i]) >>
               \o rest
          ELSE rest

generate_safe_limits(hard_limits, margins) ==
  GenerateSafeLimitsFrom(hard_limits, margins, 1)

\* ----------------------------------------------------------- _check_safety
\* The loop over the table with its two early returns; the result is the
\* joint blamed, or NoJoint when every monitored joint passes.
\* The comparisons reject the boundary values.
RECURSIVE CheckSafetyFromClosed(_, _, _)
CheckSafetyFromClosed(limits, current_positions_map, i) ==
  IF i > Len(limits) THEN NoJoint
  ELSE LET joint_name == limits[i][1]
       IN IF joint_name \notin DOMAIN current_positions_map THEN joint_name
          ELSE IF current_positions_map[joint_name] <= limits[i][2]
                  \/ current_positions_map[joint_name] >= limits[i][3]
               THEN joint_name
               ELSE CheckSafetyFromClosed(limits, current_positions_map, i + 1)

\* The lower bound is not compared.
RECURSIVE CheckSafetyFromUpperOnly(_, _, _)
CheckSafetyFromUpperOnly(limits, current_positions_map, i) ==
  IF i > Len(limits) THEN NoJoint
  ELSE LET joint_name == limits[i][1]
       IN IF joint_name \notin DOMAIN current_positions_map THEN joint_name
          ELSE IF current_positions_map[joint_name] > limits[i][3]
               THEN joint_name
               ELSE CheckSafetyFromUpperOnly(limits, current_positions_map,
                                             i + 1)

RECURSIVE CheckSafetyFrom(_, _, _)
CheckSafetyFrom(limits, current_positions_map, i) ==
  IF i > Len(limits) THEN NoJoint
  ELSE LET joint_name == limits[i][1]
           safe_min == limits[i][2]
           safe_max == limits[i][3]
       IN IF joint_name \notin DOMAIN current_positions_map THEN joint_name
          ELSE IF current_positions_map[joint_name] < safe_min
                  \/ current_positions_map[joint_name] > safe_max
               THEN joint_name
               ELSE CheckSafetyFrom(limits, current_positions_map, i + 1)

check_safety(limits, current_positions_map) ==
  CheckSafetyFrom(limits, current_positions_map, 1) # NoJoint

\* dict(zip(ORDERED_JOINT_NAMES_SPOT, position)): zip stops at the shorter.
ZipPositions(position) ==
  [ n \in { ORDERED_JOINT_NAMES_SPOT[i] :
              i \in 1 .. Min(Len(ORDERED_JOINT_NAMES_SPOT), Len(position)) }
      |-> position[IndexOf(ORDERED_JOINT_NAMES_SPOT, n)] ]

\* The hold positions are listed in the policy's joint order.
HoldPosIsaacOrder(current_positions_map) ==
  [ i \in DOMAIN ORDERED_JOINT_NAMES_BASE_ISAAC |->
      current_positions_map[ORDERED_JOINT_NAMES_BASE_ISAAC[i]] ]

\* hold_pos = [current_positions_map[name] for name in SPOT_BASE]
HoldPos(current_positions_map) ==
  dict_to_list(current_positions_map, ORDERED_JOINT_NAMES_SPOT_BASE)

\* ------------------------------------------- _post_process_action_to_spot
\* The ramp is not capped at 1.0.
TestScaleUncapped(cnt) == cnt

TestScale(cnt) == Min(cnt, RampDen)      \* numerator over RampDen

\* The offsets are listed in the robot's joint order.
ShiftedOutputSpotOffsets(output, cnt) ==
  [ i \in 1 .. 12 |->
      (TestScale(cnt) * Config.action_scale * output[i]) \div RampDen
      + Config.default_joints[ORDERED_JOINT_NAMES_SPOT_BASE[i]] ]

\* Lines 216-221: the scaled, ramped and shifted output, still in the
\* policy's joint order.
ShiftedOutput(output, cnt) ==
  LET scaled_output == [ i \in 1 .. 12 |-> Config.action_scale * output[i] ]
      test_scaled == [ i \in 1 .. 12 |->
                         (TestScale(cnt) * scaled_output[i]) \div RampDen ]
      joints_offsets_ordered ==
        dict_to_list(Config.default_joints, ORDERED_JOINT_NAMES_BASE_ISAAC)
      shifted_output == [ i \in 1 .. 12 |->
                            test_scaled[i] + joints_offsets_ordered[i] ]
  IN shifted_output

\* The output is handed on in the policy's order: the remap is left out.
isaac_to_spot_left_out ==
  find_ordering(ORDERED_JOINT_NAMES_BASE_ISAAC, ORDERED_JOINT_NAMES_BASE_ISAAC)

\* Lines 224-226
isaac_to_spot ==
  find_ordering(ORDERED_JOINT_NAMES_BASE_ISAAC, ORDERED_JOINT_NAMES_SPOT_BASE)

PostProcess(output, cnt) ==
  reorder(ShiftedOutput(output, cnt), isaac_to_spot)

\* IsaacMockSpot.command_update: the positions of the generator's command,
\* put back in the policy's order.
spot_to_isaac ==
  find_ordering(ORDERED_JOINT_NAMES_SPOT_BASE, ORDERED_JOINT_NAMES_BASE_ISAAC)

command_update(positions) == reorder(positions, spot_to_isaac)

\* ------------------------------------------------------------ create_proto
HasGains(cnt) == cnt = 1

\* The key is taken from the context's counter, one behind the generator's.
create_proto_context_key(pos_command, cnt, state) ==
  [ client_name |-> "rl_example_client",
    k_q_p |-> IF HasGains(cnt)
              THEN [ i \in 1 .. 12 |-> Config.kp[ORDERED_JOINT_NAMES_SPOT_BASE[i]] ]
              ELSE << >>,
    k_qd_p |-> IF HasGains(cnt)
               THEN [ i \in 1 .. 12 |-> Config.kd[ORDERED_JOINT_NAMES_SPOT_BASE[i]] ]
               ELSE << >>,
    position |-> [ i \in 1 .. Len(pos_command) |-> pos_command[i] ],
    velocity |-> [ i \in 1 .. Len(pos_command) |-> 0 ],
    load |-> [ i \in 1 .. Len(pos_command) |-> 0 ],
    end_time |-> state.acquisition_timestamp + ControlPeriod,
    extrapolation_nanos |-> ExtrapolationNanos,
    user_command_key |-> cnt - 1 ]

\* The end time is the control period alone: the observation time is left out.
create_proto_period_only(pos_command, cnt, state) ==
  [ client_name |-> "rl_example_client",
    k_q_p |-> IF HasGains(cnt)
              THEN [ i \in 1 .. 12 |-> Config.kp[ORDERED_JOINT_NAMES_SPOT_BASE[i]] ]
              ELSE << >>,
    k_qd_p |-> IF HasGains(cnt)
               THEN [ i \in 1 .. 12 |-> Config.kd[ORDERED_JOINT_NAMES_SPOT_BASE[i]] ]
               ELSE << >>,
    position |-> [ i \in 1 .. Len(pos_command) |-> pos_command[i] ],
    velocity |-> [ i \in 1 .. Len(pos_command) |-> 0 ],
    load |-> [ i \in 1 .. Len(pos_command) |-> 0 ],
    end_time |-> ControlPeriod,
    extrapolation_nanos |-> ExtrapolationNanos,
    user_command_key |-> cnt ]

create_proto(pos_command, cnt, state) ==
  LET N_DOF == Len(pos_command)
      k_q_p == dict_to_list(Config.kp, ORDERED_JOINT_NAMES_SPOT_BASE)
      k_qd_p == dict_to_list(Config.kd, ORDERED_JOINT_NAMES_SPOT_BASE)
  IN [ client_name |-> "rl_example_client",
       k_q_p |-> IF HasGains(cnt) THEN k_q_p ELSE << >>,
       k_qd_p |-> IF HasGains(cnt) THEN k_qd_p ELSE << >>,
       position |-> [ i \in 1 .. N_DOF |-> pos_command[i] ],
       velocity |-> [ i \in 1 .. N_DOF |-> 0 ],
       load |-> [ i \in 1 .. N_DOF |-> 0 ],
       end_time |-> state.acquisition_timestamp + ControlPeriod,
       extrapolation_nanos |-> ExtrapolationNanos,
       user_command_key |-> cnt ]

\* ------------------------------------------------------- parse_urdf_limits
\* A robot description file: absent, not well-formed XML, or a list of joint
\* elements <<name, limit children>>, a limit child being its attributes.
NoFile == [ exists |-> FALSE, well_formed |-> FALSE, joints |-> << >> ]

\* The outcome of a block that may raise.
Raised == [ raised |-> TRUE, limits |-> [ n \in {} |-> 0 ] ]

Returned(limits) == [ raised |-> FALSE, limits |-> limits ]

\* limit["lower"]: an Element is subscripted by position, and a string
\* subscript raises TypeError.
ElementGetItem(limit, key) == [ raised |-> TRUE, value |-> 0 ]

\* The loop of lines 19-36 from joint i on; limits is the dict so far.
RECURSIVE ParseJointsFrom(_, _, _)
ParseJointsFrom(joints, i, limits) ==
  IF i > Len(joints) THEN Returned(limits)
  ELSE LET name == joints[i].name
           found == joints[i].limit          \* joint.find("limit")
       IN IF found = << >> THEN Raised       \* ValueError, line 25
          ELSE LET limit == found[1]
               IN IF "lower" \notin DOMAIN limit THEN Raised
                  ELSE IF "upper" \notin DOMAIN limit THEN Raised
                  ELSE LET lower == ElementGetItem(limit, "lower")
                           upper == ElementGetItem(limit, "upper")
                           velocity == ElementGetItem(limit, "velocity")
                       IN IF lower.raised \/ upper.raised \/ velocity.raised
                          THEN Raised
                          ELSE ParseJointsFrom(joints, i + 1,
                                 [ n \in DOMAIN limits \cup {name} |->
                                     IF n = name
                                     THEN [ lower |-> lower.value,
                                            upper |-> upper.value ]
                                     ELSE limits[n] ])

\* parse_urdf_limits(urdf_path): {} for a missing file, and {} again from
\* the except clause for whatever the try block raises.
parse_urdf_limits(file) ==
  IF ~ file.exists THEN [ n \in {} |-> 0 ]
  ELSE LET tried == IF ~ file.well_formed THEN Raised
                    ELSE ParseJointsFrom(file.joints, 1, [ n \in {} |-> 0 ])
       IN IF tried.raised THEN [ n \in {} |-> 0 ] ELSE tried.limits

\* ---------------------------------------------------------- collect_inputs
\* The observation helpers of rl_deploy.orbit.observations: the three body
\* vectors of the snapshot, and the leg positions (less their offsets) and
\* leg velocities in the policy's joint order.
get_base_linear_velocity(state) == state.base_linear_velocity

get_base_angular_velocity(state) == state.base_angular_velocity

get_projected_gravity(state) == state.projected_gravity

get_joint_positions(state, config) ==
  LET legs == reorder([ i \in 1 .. 12 |-> state.position[i] ], spot_to_isaac)
  IN [ i \in 1 .. 12 |->
         legs[i] - config.default_joints[ORDERED_JOINT_NAMES_BASE_ISAAC[i]] ]

get_joint_velocity(state) ==
  reorder([ i \in 1 .. 12 |-> state.velocity[i] ], spot_to_isaac)

VelocityScale == 25     \* i * 0.25, over ScaleDen
LastActionScale == 20   \* i * 0.20, over ScaleDen
ScaleDen == 100

\* The operator's command is appended after the last action.
collect_inputs_cmd_last(state, cmd, prev_action) ==
  get_base_linear_velocity(state)
  \o get_base_angular_velocity(state)
  \o get_projected_gravity(state)
  \o get_joint_positions(state, Config)
  \o [ i \in 1 .. 12 |->
         (VelocityScale * get_joint_velocity(state)[i]) \div ScaleDen ]
  \o [ i \in DOMAIN prev_action |->
         (LastActionScale * prev_action[i]) \div ScaleDen ]
  \o cmd

\* collect_inputs(state, config), with the two fields of self it reads:
\* the context's velocity_cmd and _last_action.
collect_inputs(state, cmd, prev_action) ==
  LET observations0 == get_base_linear_velocity(state)
      observations1 == observations0 \o get_base_angular_velocity(state)
      observations2 == observations1 \o get_projected_gravity(state)
      observations3 == observations2 \o cmd
      observations4 == observations3 \o get_joint_positions(state, Config)
      observations5 ==
        observations4
        \o [ i \in 1 .. 12 |->
               (VelocityScale * get_joint_velocity(state)[i]) \div ScaleDen ]
      observations6 ==
        observations5
        \o [ i \in DOMAIN prev_action |->
               (LastActionScale * prev_action[i]) \div ScaleDen ]
  IN observations6

\* -------------------------------------------------------- create_proto_hold
\* DEFAULT_K_Q_P[0:12] and DEFAULT_K_QD_P[0:12] (the latter in hundredths)
DEFAULT_K_Q_P ==
  [ i \in 1 .. 12 |->
      CASE JointKind(ORDERED_JOINT_NAMES_SPOT_BASE[i]) = "hx" -> 624
        [] JointKind(ORDERED_JOINT_NAMES_SPOT_BASE[i]) = "hy" -> 936
        [] OTHER -> 286 ]

DEFAULT_K_QD_P ==
  [ i \in 1 .. 12 |->
      CASE JointKind(ORDERED_JOINT_NAMES_SPOT_BASE[i]) = "kn" -> 204
        [] OTHER -> 520 ]

\* The debugging command that holds the initial pose; __call__ never builds
\* it.
create_proto_hold(pos, load, cnt, state) ==
  LET N_DOF == 12
  IN [ client_name |-> "rl_example_client",
       k_q_p |-> IF HasGains(cnt) THEN DEFAULT_K_Q_P ELSE << >>,
       k_qd_p |-> IF HasGains(cnt) THEN DEFAULT_K_QD_P ELSE << >>,
       position |-> [ i \in 1 .. N_DOF |-> pos[i] ],
       velocity |-> [ i \in 1 .. N_DOF |-> 0 ],
       load |-> [ i \in 1 .. N_DOF |-> load[i] ],
       end_time |-> state.acquisition_timestamp + ControlPeriod,
       extrapolation_nanos |-> ExtrapolationNanos,
       user_command_key |-> cnt ]

\* ------------------------------------------------------------------ inputs
\* spot.constants.JOINT_LIMITS as the generator imports it: joint ->
\* [lower, upper] for every joint of the robot, or the empty dict.
FullLimits ==
  [ n \in Range(ORDERED_JOINT_NAMES_SPOT) |->
      CASE JointKind(n) = "hx" -> [ lower |-> -1, upper |-> 1 ]
        [] JointKind(n) = "hy" -> [ lower |-> -1, upper |-> 2 ]
        [] JointKind(n) = "kn" -> [ lower |-> -2, upper |-> 0 ]
        [] OTHER -> [ lower |-> -2, upper |-> 2 ] ]

EmptyLimits == [ n \in {} |-> FullLimits[n] ]

HardLimitSources == { FullLimits, EmptyLimits }

\* Sensor snapshots: every producer delivers the twelve leg joints, with or
\* without the seven arm joints.  Positions sit inside the envelope of
\* FullLimits except for one probed joint put on or next to a boundary.
RefLimits == generate_safe_limits(FullLimits, JOINT_SOFT_LIMITS)

RefEntry(name) ==
  RefLimits[CHOOSE i \in DOMAIN RefLimits : RefLimits[i][1] = name]

ArmFar == 9 * MarginDen

InRangePos(name) ==
  IF JointKind(name) = "arm" THEN 0
  ELSE (RefEntry(name)[2] + RefEntry(name)[3]) \div 2

ProbeValues(name) ==
  CASE name = "fl_hx" -> { RefEntry(name)[2] - 1, RefEntry(name)[2],
                           RefEntry(name)[3] + 1 }
    [] name = "hr_kn" -> { RefEntry(name)[3] + 1 }
    [] name = "arm_sh0" -> { ArmFar }
    [] OTHER -> {}

BasePosition(n) ==
  [ i \in 1 .. n |-> InRangePos(ORDERED_JOINT_NAMES_SPOT[i]) ]

PerturbedPositions(n) ==
  UNION { { [ BasePosition(n) EXCEPT ![i] = v ] :
              v \in ProbeValues(ORDERED_JOINT_NAMES_SPOT[i]) } : i \in 1 .. n }

\* A robot without an arm reports twelve joints, one with an arm nineteen.
SnapshotPositions ==
  { BasePosition(12), [ BasePosition(12) EXCEPT ![12] = RefEntry("hr_kn")[2] - 1 ] }
  \cup { BasePosition(19) } \cup PerturbedPositions(19)

\* What the inference backend may answer: multiples of RampDen, so that the
\* warm-up product is exact.
Outputs ==
  { [ i \in 1 .. 12 |-> 0 ], [ i \in 1 .. 12 |-> RampDen * i ] }

NoMap == [ n \in {} |-> 0 ]

\* ------------------------------------------------------------------- state
VARIABLES
  JOINT_LIMITS,       \* spot.constants.JOINT_LIMITS
  soft_limits,        \* spot.constants.JOINT_SOFT_LIMITS
  latest_state,       \* OnnxControllerContext.latest_state
  event,              \* OnnxControllerContext.event is set
  context_count,      \* OnnxControllerContext.count
  last_action,        \* OnnxCommandGenerator._last_action
  count,              \* OnnxCommandGenerator._count
  init_pos,           \* OnnxCommandGenerator._init_pos
  init_load,          \* OnnxCommandGenerator._init_load
  triggered_safety,   \* OnnxCommandGenerator._triggered_safety
  safety_proto,       \* OnnxCommandGenerator._safety_proto
  safe_limits,        \* OnnxCommandGenerator._safe_limits
  positions_map,      \* the argument of the last _check_safety probe
  calls,              \* history: invocations of the generator so far
  returned,           \* history: commands returned so far
  last_return,        \* history: the command returned most recently
  last_path,          \* history: how the latest invocation ended
  nominal_runs,       \* history: invocations that completed the nominal path
  inference_runs,     \* history: calls of the inference session
  urdf,               \* the robot description file read by spot.constants
  seen,               \* EventDivider: wake-ups counted in the current wait
  released,           \* history: returns of the EventDivider
  fired,              \* history: firings of the wake signal
  collapsed,          \* history: firings that found the signal already set
  gap_fired,          \* history: firings between a return and its invocation
  between_releases,   \* history: firings while released = k, for each k
  between_calls,      \* history: firings while calls = k, for each k
  ord_source,         \* find_ordering: the source order
  ord_target,         \* find_ordering: the target order
  ord_map,            \* find_ordering: what it returned
  ord_values,         \* an array in the source order
  ord_there,          \* the array reordered to the target order
  ord_back,           \* the array reordered back to the source order
  input_list,         \* history: the observation vector assembled last
  observing,          \* history: whether observation vectors are recorded
  velocity_cmd,       \* OnnxControllerContext.velocity_cmd, in tenths
  x_vel,              \* Keyboard.x_vel, in tenths
  y_vel,              \* Keyboard.y_vel, in tenths
  yaw,                \* Keyboard.yaw, in tenths
  polls,              \* history: runs of Keyboard.listen_loop
  pressed,            \* history: the keys the last run found pressed
  heap,               \* the state messages allocated so far, by identity
  state_msg,          \* IsaacMockSpot._state_msg: the identity it refers to
  ref,                \* the identity OnnxControllerContext.latest_state refers to
  published,          \* history: the identities handed to the StateHandler
  prod_pc,            \* the line the state producer has reached
  observed,           \* history: what the consumer last read through the context
  gen_pc,             \* the line an invocation of the generator has reached
  used,               \* history: the snapshot each part of an invocation read
  env_config,         \* the training configuration handed to load_configuration
  policy_config       \* what load_configuration returned

ctxVars == << latest_state, event, context_count >>
genVars == << last_action, count, init_pos, init_load, triggered_safety,
              safety_proto >>
tableVars == << JOINT_LIMITS, soft_limits, safe_limits >>
histVars == << calls, returned, last_return, last_path, nominal_runs,
               inference_runs >>
divVars == << seen, released, fired, collapsed, gap_fired, between_releases,
             between_calls >>
ordVars == << ord_source, ord_target, ord_map, ord_values, ord_there,
             ord_back >>
kbdVars == << velocity_cmd, x_vel, y_vel, yaw, polls, pressed >>
handVars == << heap, state_msg, ref, published, prod_pc, observed >>
stepVars == << gen_pc, used >>
cfgVars == << env_config, policy_config >>
extVars == << urdf, divVars, ordVars, kbdVars, observing, handVars, stepVars,
             cfgVars >>
vars == << ctxVars, genVars, tableVars, positions_map, histVars, extVars,
          input_list >>

\* OnnxControllerContext() and OnnxCommandGenerator.__init__, lines 82-96
InitFields ==
  /\ latest_state = None
  /\ event = FALSE
  /\ context_count = 0
  /\ last_action = [ i \in 1 .. 12 |-> 0 ]
  /\ count = 1
  /\ init_pos = NoPose
  /\ init_load = NoPose
  /\ triggered_safety = FALSE
  /\ safety_proto = None
  /\ positions_map = NoMap
  /\ calls = 0
  /\ returned = 0
  /\ last_return = None
  /\ last_path = "none"
  /\ nominal_runs = 0
  /\ inference_runs = 0
  /\ input_list = << >>

\* What the other specifications add, at rest.
InitDivider ==
  /\ seen = 0
  /\ released = 0
  /\ fired = 0
  /\ collapsed = 0
  /\ gap_fired = 0
  /\ between_releases = [ k \in 0 .. MaxCalls + 1 |-> 0 ]
  /\ between_calls = [ k \in 0 .. MaxCalls + 1 |-> 0 ]

InitOrderingAtRest ==
  /\ ord_source = << >>
  /\ ord_target = << >>
  /\ ord_map = << >>
  /\ ord_values = << >>
  /\ ord_there = << >>
  /\ ord_back = << >>

\* Keyboard's class attributes and the context's velocity_cmd = [0, 0, 0]
InitKeyboard ==
  /\ velocity_cmd = << 0, 0, 0 >>
  /\ x_vel = 0
  /\ y_vel = 0
  /\ yaw = 0
  /\ polls = 0
  /\ pressed = {}

\* No state message allocated, no invocation under way.
InitHandoff ==
  /\ heap = << >>
  /\ state_msg = 0
  /\ ref = 0
  /\ published = {}
  /\ prod_pc = "idle"
  /\ observed = None

InitSteps ==
  /\ gen_pc = "idle"
  /\ used = NoMap

InitConfigAtRest ==
  /\ env_config = None
  /\ policy_config = None

InitExt ==
  /\ urdf = NoFile
  /\ observing = FALSE
  /\ InitDivider
  /\ InitOrderingAtRest
  /\ InitKeyboard
  /\ InitHandoff
  /\ InitSteps
  /\ InitConfigAtRest

\* The state after construction: the table is built at line 98.
Init ==
  /\ JOINT_LIMITS \in HardLimitSources
  /\ soft_limits = JOINT_SOFT_LIMITS
  /\ safe_limits = generate_safe_limits(JOINT_LIMITS, soft_limits)
  /\ InitFields
  /\ InitExt

\* StateHandler.__call__(state)
NextTimestamp ==
  IF latest_state = None THEN 1 ELSE latest_state.acquisition_timestamp + 1

\* The snapshot the state stream hands over at time t: the joint states
\* and the body's kinematic state (velocities are multiples of 4, so that a
\* quarter of them is exact).
Snapshot(position, t) ==
  [ position |-> position,
    velocity |-> [ i \in DOMAIN position |-> 4 * (400 + 10 * t + i) ],
    load |-> [ i \in DOMAIN position |-> t ],
    acquisition_timestamp |-> t,
    base_linear_velocity |-> << 100 + t, 110 + t, 120 + t >>,
    base_angular_velocity |-> << 200 + t, 210 + t, 220 + t >>,
    projected_gravity |-> << 300 + t, 310 + t, 320 + t >> ]

StateUpdate(position) ==
  /\ latest_state' = Snapshot(position, NextTimestamp)
  /\ event' = TRUE
  /\ UNCHANGED << context_count, genVars, tableVars, positions_map, histVars,
                  input_list >>

StateHandler ==
  /\ NextTimestamp <= MaxTime
  /\ \E position \in SnapshotPositions : StateUpdate(position)
  /\ UNCHANGED extVars

\* The pose is cached again by every invocation.
CaptureInitialPoseAlways ==
  /\ init_pos' = latest_state.position
  /\ init_load' = latest_state.load

\* OnnxCommandGenerator.__call__, lines 149-151: the initial pose is cached
\* by the first invocation.
CaptureInitialPose ==
  /\ init_pos' = IF init_pos = NoPose THEN latest_state.position ELSE init_pos
  /\ init_load' = IF init_pos = NoPose THEN latest_state.load ELSE init_load

\* __call__, line 157: input_list = self.collect_inputs(...), kept as
\* history where observation vectors are recorded.
ObservedInputs ==
  IF observing
  THEN collect_inputs(latest_state, velocity_cmd, last_action)
  ELSE << >>

\* The command stream invokes the generator once the divider has let a wake
\* signal through, so a snapshot is there.
Invoked ==
  /\ latest_state # None
  /\ calls < MaxCalls
  /\ calls' = calls + 1

\* The latch holds only while the current snapshot still fails the check.
IsLatchedWhileFailing ==
  /\ safety_proto # None
  /\ check_safety(safe_limits, ZipPositions(latest_state.position))

\* __call__, line 153: self._safety_proto is not None
IsLatched == safety_proto # None

\* The hold command is built again from the snapshot of this invocation.
LatchedCommandRebuilt ==
  create_proto(HoldPos(ZipPositions(latest_state.position)), count,
               latest_state)

\* __call__, line 154: return self._safety_proto
LatchedCommand == safety_proto

\* __call__, lines 153-154: the cached safety command is returned.
CallLatched ==
  /\ Invoked
  /\ IsLatched
  /\ CaptureInitialPose
  /\ last_return' = LatchedCommand
  /\ returned' = returned + 1
  /\ last_path' = "latched"
  /\ UNCHANGED << extVars, ctxVars, last_action, count, triggered_safety,
                  safety_proto, tableVars, positions_map, nominal_runs,
                  inference_runs, input_list >>

\* The invocation that latches advances the counters as well.
CallLatchingCounted ==
  /\ Invoked
  /\ ~ IsLatched
  /\ CaptureInitialPose
  /\ input_list' = ObservedInputs
  /\ LET current_positions_map == ZipPositions(latest_state.position)
     IN /\ check_safety(safe_limits, current_positions_map)
        /\ triggered_safety' = TRUE
        /\ LET hold_pos == HoldPos(current_positions_map)
               proto == create_proto(hold_pos, count, latest_state)
           IN /\ safety_proto' = proto
              /\ last_return' = proto
  /\ count' = count + 1
  /\ context_count' = context_count + 1
  /\ returned' = returned + 1
  /\ last_path' = "latching"
  /\ UNCHANGED << extVars, latest_state, event, last_action, tableVars,
                  positions_map, nominal_runs, inference_runs >>

\* The hold command is returned without being cached.
CallLatchingUncached ==
  /\ Invoked
  /\ ~ IsLatched
  /\ CaptureInitialPose
  /\ input_list' = ObservedInputs
  /\ LET current_positions_map == ZipPositions(latest_state.position)
     IN /\ check_safety(safe_limits, current_positions_map)
        /\ triggered_safety' = TRUE
        /\ last_return' = create_proto(HoldPos(current_positions_map), count,
                                       latest_state)
  /\ returned' = returned + 1
  /\ last_path' = "latching"
  /\ UNCHANGED << extVars, ctxVars, last_action, count, safety_proto,
                  tableVars, positions_map, nominal_runs, inference_runs >>

\* __call__, lines 156-176: the safety check fails, the hold command is
\* built from the measured positions, cached and returned.
CallLatching ==
  /\ Invoked
  /\ ~ IsLatched
  /\ CaptureInitialPose
  /\ input_list' = ObservedInputs
  /\ LET current_positions_map == ZipPositions(latest_state.position)
     IN /\ check_safety(safe_limits, current_positions_map)
        /\ triggered_safety' = TRUE
        /\ LET hold_pos == HoldPos(current_positions_map)
               proto == create_proto(hold_pos, count, latest_state)
           IN /\ safety_proto' = proto
              /\ last_return' = proto
  /\ returned' = returned + 1
  /\ last_path' = "latching"
  /\ UNCHANGED << extVars, ctxVars, last_action, count, tableVars, positions_map,
                  nominal_runs, inference_runs >>

\* __call__, lines 156-189: the safety check passes, the inference session
\* answers with output.
CallNominal(output) ==
  /\ Invoked
  /\ ~ IsLatched
  /\ CaptureInitialPose
  /\ input_list' = ObservedInputs
  /\ LET current_positions_map == ZipPositions(latest_state.position)
     IN /\ ~ check_safety(safe_limits, current_positions_map)
        /\ triggered_safety' = FALSE
  /\ inference_runs' = inference_runs + 1
  /\ LET action == PostProcess(output, count)
         proto == create_proto(action, count, latest_state)
     IN last_return' = proto
  /\ last_action' = output
  /\ count' = count + 1
  /\ context_count' = context_count + 1
  /\ returned' = returned + 1
  /\ nominal_runs' = nominal_runs + 1
  /\ last_path' = "nominal"
  /\ UNCHANGED << extVars, latest_state, event, safety_proto, tableVars,
                  positions_map >>

\* The error is swallowed and the previous action is sent once more.
CallInferenceErrorStaleAction ==
  /\ Invoked
  /\ ~ IsLatched
  /\ CaptureInitialPose
  /\ input_list' = ObservedInputs
  /\ ~ check_safety(safe_limits, ZipPositions(latest_state.position))
  /\ triggered_safety' = FALSE
  /\ inference_runs' = inference_runs + 1
  /\ last_return' = create_proto(PostProcess(last_action, count), count,
                                 latest_state)
  /\ count' = count + 1
  /\ context_count' = context_count + 1
  /\ returned' = returned + 1
  /\ last_path' = "raised"
  /\ UNCHANGED << extVars, latest_state, event, last_action, safety_proto,
                  tableVars, positions_map, nominal_runs >>

\* __call__, lines 156-178: the safety check passes and the inference
\* session raises; the exception leaves __call__ at line 178.
CallInferenceError ==
  /\ Invoked
  /\ ~ IsLatched
  /\ CaptureInitialPose
  /\ input_list' = ObservedInputs
  /\ LET current_positions_map == ZipPositions(latest_state.position)
     IN /\ ~ check_safety(safe_limits, current_positions_map)
        /\ triggered_safety' = FALSE
  /\ inference_runs' = inference_runs + 1
  /\ last_path' = "raised"
  /\ UNCHANGED << extVars, ctxVars, last_action, count, safety_proto, tableVars,
                  positions_map, returned, last_return, nominal_runs >>

Call ==
  \/ CallLatched
  \/ CallLatching
  \/ \E output \in Outputs : CallNominal(output)
  \/ CallInferenceError

Next ==
  \/ StateHandler
  \/ Call

Spec == Init /\ [][Next]_vars

\* ------------------------------------------------------------ properties
\* Every joint of the table has a value in the snapshot and the value lies
\* in [min, max].
WithinEnvelope(limits, state) ==
  \A i \in DOMAIN limits :
    \E k \in 1 .. Min(Len(ORDERED_JOINT_NAMES_SPOT), Len(state.position)) :
      /\ ORDERED_JOINT_NAMES_SPOT[k] = limits[i][1]
      /\ limits[i][2] <= state.position[k]
      /\ state.position[k] <= limits[i][3]

C2_LatchedCommandsIdentical ==
  [][ safety_proto # None =>
        /\ safety_proto' = safety_proto
        /\ last_return' = safety_proto
        /\ (calls' = calls + 1 => returned' = returned + 1) ]_vars

\* A latched invocation on a snapshot newer than the one the cached command
\* was built from.
C2_Witness ==
  /\ last_path = "latched"
  /\ last_return = safety_proto
  /\ latest_state.acquisition_timestamp + ControlPeriod > safety_proto.end_time

\* C3: the first command returned carries the gains and every later one
\* omits them.
C3_GainsOnFirstCommandOnly ==
  last_return # None =>
    ((last_return.k_q_p # << >> /\ last_return.k_qd_p # << >>)
       <=> returned = 1)

\* C5: the hold command built, cached and returned by the latching
\* invocation targets, for every leg joint, the position measured in the
\* snapshot that failed the check.
C5_HoldCommandIsMeasured ==
  [][ (safety_proto = None /\ safety_proto' # None) =>
        /\ last_return' = safety_proto'
        /\ Len(safety_proto'.position) = Len(ORDERED_JOINT_NAMES_SPOT_BASE)
        /\ ~ WithinEnvelope(safe_limits, latest_state)
        /\ \A name \in Range(ORDERED_JOINT_NAMES_SPOT_BASE) :
             safety_proto'.position[IndexOf(ORDERED_JOINT_NAMES_SPOT_BASE, name)]
               = latest_state.position[IndexOf(ORDERED_JOINT_NAMES_SPOT, name)]
      ]_vars

\* The generator has latched on a snapshot other than the one of the initial
\* pose, after a policy target was emitted.
C5_Witness ==
  /\ last_path = "latching"
  /\ nominal_runs > 0
  /\ \E i \in 1 .. 12 : safety_proto.position[i] # init_pos[i]

\* C6: the inference session runs at most once per invocation, only in an
\* invocation whose snapshot lies inside the envelope, and never in the
\* latching invocation or after it.
C6_InferenceOnlyAfterPassingCheck ==
  [][ inference_runs' # inference_runs =>
        /\ inference_runs' = inference_runs + 1
        /\ calls' = calls + 1
        /\ safety_proto = None
        /\ safety_proto' = None
        /\ ~ triggered_safety'
        /\ WithinEnvelope(safe_limits, latest_state) ]_vars

\* The inference session has run, in an invocation on a snapshot with a
\* monitored joint exactly on its lower limit.
C6_Witness ==
  /\ inference_runs > 0
  /\ last_path = "nominal"
  /\ safe_limits # << >>
  /\ latest_state.position[1] = safe_limits[1][2]

\* C7: the command of the k-th nominal invocation is the offset plus
\* min(k / 10, 1) times the scaled action: 10% at k = 1, 100% from k = 10 on.
C7_WarmUpRamp ==
  last_path = "nominal" =>
    \A i \in 1 .. 12 :
      LET name == ORDERED_JOINT_NAMES_BASE_ISAAC[i]
          target == last_return.position[
                      IndexOf(ORDERED_JOINT_NAMES_SPOT_BASE, name)]
          scaled == Config.action_scale * last_action[i]
          swing == target - Config.default_joints[name]
      IN /\ RampDen * swing = Min(nominal_runs, RampDen) * scaled
         /\ (nominal_runs = 1 => RampDen * swing = scaled)
         /\ (nominal_runs >= RampDen => swing = scaled)

\* A nominal invocation past the tenth with a non-zero action.
C7_Witness ==
  /\ last_path = "nominal"
  /\ nominal_runs > RampDen
  /\ last_action[1] # 0

\* C8: a returned command carries the cycle counter of the moment it was
\* built as its key, the k-th nominal command has key k, and no returned
\* command has a smaller key than the one returned before it.
C8_SequenceKey ==
  [][ returned' = returned + 1 =>
        /\ last_return'.user_command_key = count
        /\ (last_path' = "nominal" =>
              last_return'.user_command_key = nominal_runs')
        /\ (last_return # None =>
              last_return'.user_command_key >= last_return.user_command_key)
      ]_vars

\* A latched command returned after several nominal ones.
C8_Witness ==
  /\ last_path = "latched"
  /\ nominal_runs >= 2
  /\ last_return.user_command_key = nominal_runs + 1

\* C16: an invocation in which the inference session raises returns no
\* command, does not latch, and leaves the cached last action, the
\* generator's counter and the context's counter as they were.
C16_InferenceErrorPropagates ==
  [][ (calls' = calls + 1 /\ last_path' = "raised") =>
        /\ inference_runs' = inference_runs + 1
        /\ returned' = returned
        /\ last_return' = last_return
        /\ safety_proto = None
        /\ safety_proto' = None
        /\ ~ triggered_safety'
        /\ last_action' = last_action
        /\ count' = count
        /\ context_count' = context_count
        /\ nominal_runs' = nominal_runs ]_vars

\* The inference session has raised after a nominal invocation had left a
\* non-zero action behind.
C16_Witness ==
  /\ last_path = "raised"
  /\ nominal_runs >= 1
  /\ last_action[1] # 0
  /\ returned = nominal_runs
  /\ count = nominal_runs + 1


\* C17: in a nominal invocation the target of leg joint j, at j's place in
\* the robot's order, is offset[j] + min(0.1 * cycle count, 1) * action
\* scale * raw[i], i being j's place in the policy's order; a zero output
\* gives every joint its offset.
C17_PostProcessedTargets ==
  [][ (calls' = calls + 1 /\ last_path' = "nominal") =>
        /\ Len(last_return'.position) = 12
        /\ \A j \in Range(ORDERED_JOINT_NAMES_SPOT_BASE) :
             LET target == last_return'.position[
                             IndexOf(ORDERED_JOINT_NAMES_SPOT_BASE, j)]
                 raw == last_action'[
                          IndexOf(ORDERED_JOINT_NAMES_BASE_ISAAC, j)]
             IN /\ RampDen * (target - Config.default_joints[j])
                     = Min(count, RampDen) * Config.action_scale * raw
                /\ (\A i \in 1 .. 12 : last_action'[i] = 0) =>
                     target = Config.default_joints[j] ]_vars

\* The first nominal invocation with a zero output: a joint whose place
\* differs between the two orders is sent to its own offset.
C17_Witness ==
  /\ last_path = "nominal"
  /\ nominal_runs = 1
  /\ \A i \in 1 .. 12 : last_action[i] = 0
  /\ last_return.position[4] = Config.default_joints["fr_hx"]
  /\ ORDERED_JOINT_NAMES_BASE_ISAAC[4] # "fr_hx"

\* C18: the generator's counter starts at 1, grows by exactly one in every
\* invocation that completes the nominal path and stays as it is in the
\* latching invocation and in every latched one, so that it is k + 1 after
\* k nominal invocations.
C18_CycleCounter ==
  [][ /\ (calls = 0 => count = 1)
      /\ count' = nominal_runs' + 1
      /\ (calls' = calls + 1 =>
            IF last_path' = "nominal"
            THEN count' = count + 1
            ELSE count' = count)
      /\ (calls' = calls => count' = count) ]_vars

\* Latched invocations after three nominal ones and the latching one.
C18_Witness ==
  /\ last_path = "latched"
  /\ nominal_runs = 3
  /\ calls >= nominal_runs + 3
  /\ count = 4

\* C19: the first invocation caches the positions and loads of the snapshot
\* it finds, no later step changes them, and no command that the nominal or
\* the latching path builds is the hold command of the initial pose: its
\* loads are zero and, when latching, its positions are the measured ones.
C19_InitialPoseCapturedOnce ==
  [][ /\ (calls' = calls + 1 /\ calls = 0) =>
           /\ init_pos' = latest_state.position
           /\ init_load' = latest_state.load
      /\ (calls' = calls + 1 /\ calls > 0) =>
           /\ init_pos' = init_pos
           /\ init_load' = init_load
      /\ calls' = calls => (init_pos' = init_pos /\ init_load' = init_load)
      /\ (returned' = returned + 1 /\ last_path' \in {"nominal", "latching"}) =>
           /\ last_return' # create_proto_hold(init_pos', init_load', count,
                                               latest_state)
           /\ \A i \in 1 .. 12 : last_return'.load[i] = 0
           /\ last_path' = "latching" =>
                \A i \in 1 .. 12 :
                  last_return'.position[i] = latest_state.position[i] ]_vars

\* The generator has latched on a snapshot whose positions and loads differ
\* from the initial pose it still holds.
C19_Witness ==
  /\ last_path = "latching"
  /\ calls >= 3
  /\ init_pos # NoPose
  /\ init_pos # latest_state.position
  /\ init_load # latest_state.load
  /\ \E i \in 1 .. 12 : last_return.position[i] # init_pos[i]

\* C22 as claimed: the end time of every returned command, the latched
\* ones included, is the acquisition time of the snapshot current at that
\* invocation plus the control period.
C22_EndTimeFromCurrentSnapshot ==
  [][ returned' = returned + 1 =>
        last_return'.end_time
          = latest_state.acquisition_timestamp + ControlPeriod ]_vars

\* C22 amended: the end time of the command a nominal or latching invocation
\* returns is the acquisition time of the snapshot current at that
\* invocation plus the control period; a latched invocation returns the end
\* time of the cached command, which is that of the latching invocation
\* and is not advanced by newer snapshots.
C22_EndTimeFromSnapshotOfItsBuild ==
  [][ returned' = returned + 1 =>
        IF last_path' = "latched"
        THEN /\ last_return'.end_time = safety_proto.end_time
             /\ last_return'.end_time
                  <= latest_state.acquisition_timestamp + ControlPeriod
        ELSE /\ last_return'.end_time
                  = latest_state.acquisition_timestamp + ControlPeriod
             /\ (last_path' = "latching" =>
                   safety_proto'.end_time = last_return'.end_time) ]_vars

\* A latched command whose end time lies a snapshot behind the current one.
C22_Witness ==
  /\ last_path = "latched"
  /\ calls >= 3
  /\ last_return.end_time + 1
       = latest_state.acquisition_timestamp + ControlPeriod

HardPairs ==
  { [ lower |-> l, upper |-> u ] :
      l \in -MaxHard .. MaxHard, u \in -MaxHard .. MaxHard }
  \ { p \in [ lower : -MaxHard .. MaxHard, upper : -MaxHard .. MaxHard ] :
        p.lower > p.upper }

MarginChoices == { 1, MarginDen \div 2, MarginDen }

DrawnLimits ==
  { a @@ b @@ c :
      a \in { [ n \in {"fl_hx"} |-> p ] : p \in HardPairs } \cup { EmptyLimits },
      b \in { [ n \in {"fl_kn"} |-> FullLimits[n] ], EmptyLimits },
      c \in { [ n \in {"arm_sh0"} |-> FullLimits[n] ], EmptyLimits } }

DrawnMargins ==
  { << <<"fl_hx", a, b>>, JOINT_SOFT_LIMITS[3], JOINT_SOFT_LIMITS[12] >> :
      a \in MarginChoices, b \in MarginChoices }

Monitored(limits) == { limits[i][1] : i \in DOMAIN limits }

BaseMap(limits, far) ==
  [ n \in Range(ORDERED_JOINT_NAMES_SPOT) |->
      IF n \in Monitored(limits)
      THEN limits[CHOOSE i \in DOMAIN limits : limits[i][1] = n][2]
      ELSE far ]

ProbeMaps(limits) ==
  UNION { { BaseMap(limits, far) }
          \cup { [ n \in Range(ORDERED_JOINT_NAMES_SPOT) \ {gone} |->
                     BaseMap(limits, far)[n] ] :
                   gone \in Monitored(limits) \cup {"arm_sh0"} }
          \cup UNION { { [ BaseMap(limits, far) EXCEPT ![limits[i][1]] = v ] :
                           v \in { limits[i][2] - 1, limits[i][3],
                                   limits[i][3] + 1 } } :
                       i \in DOMAIN limits }
          : far \in { 0, ArmFar } }

InitLimits ==
  /\ JOINT_LIMITS \in DrawnLimits
  /\ soft_limits \in DrawnMargins
  /\ safe_limits = << >>
  /\ InitFields
  /\ InitExt

\* OnnxCommandGenerator.__init__, line 98
BuildTable ==
  /\ last_path = "none"
  /\ safe_limits' = generate_safe_limits(JOINT_LIMITS, soft_limits)
  /\ last_path' = "built"
  /\ UNCHANGED << extVars, ctxVars, genVars, JOINT_LIMITS, soft_limits,
                  positions_map, calls, returned, last_return, nominal_runs,
                  inference_runs, input_list >>

\* __call__, line 167: self._triggered_safety = self._check_safety(map)
ProbeSafety ==
  /\ last_path \in {"built", "probed"}
  /\ \E current_positions_map \in ProbeMaps(safe_limits) :
       /\ positions_map' = current_positions_map
       /\ triggered_safety' = check_safety(safe_limits, current_positions_map)
  /\ last_path' = "probed"
  /\ UNCHANGED << extVars, ctxVars, last_action, count, init_pos, init_load,
                  safety_proto, tableVars, calls, returned, last_return,
                  nominal_runs, inference_runs, input_list >>

NextLimits ==
  \/ BuildTable
  \/ ProbeSafety

SpecLimits == InitLimits /\ [][NextLimits]_vars

TableBuilt == last_path \in {"built", "probed"}

SoftItem(name) ==
  soft_limits[CHOOSE i \in DOMAIN soft_limits : soft_limits[i][1] = name]

\* C4: the check fails exactly when some joint of the table has no value in
\* the position map or a value strictly below its min or strictly above its
\* max; joints outside the table have no say.
C4_CheckFailsIffMonitoredJointOut ==
  last_path = "probed" =>
    (triggered_safety <=>
       \E i \in DOMAIN safe_limits :
         \/ safe_limits[i][1] \notin DOMAIN positions_map
         \/ positions_map[safe_limits[i][1]] < safe_limits[i][2]
         \/ positions_map[safe_limits[i][1]] > safe_limits[i][3])

\* The check has failed on a map that lacks a monitored joint while an
\* unmonitored joint is far away.
C4_Witness ==
  /\ last_path = "probed"
  /\ triggered_safety
  /\ \E i \in DOMAIN safe_limits : safe_limits[i][1] \notin DOMAIN positions_map
  /\ "arm_sh0" \in DOMAIN positions_map
  /\ positions_map["arm_sh0"] = ArmFar

\* [min_val, max_val] lies inside [hard_lower, hard_upper].
InsideHard(entry) ==
  /\ 2 * MarginDen * JOINT_LIMITS[entry[1]].lower <= entry[2]
  /\ entry[2] <= entry[3]
  /\ entry[3] <= 2 * MarginDen * JOINT_LIMITS[entry[1]].upper

EqualsHard(entry) ==
  /\ entry[2] = 2 * MarginDen * JOINT_LIMITS[entry[1]].lower
  /\ entry[3] = 2 * MarginDen * JOINT_LIMITS[entry[1]].upper

ProperRange(entry) ==
  JOINT_LIMITS[entry[1]].lower < JOINT_LIMITS[entry[1]].upper

\* C9 as claimed: for hard_lower < hard_upper and margins in (0, 1] the
\* interval [min_val, max_val] is a strict subset of [hard_lower, hard_upper].
C9_StrictSubset ==
  TableBuilt =>
    \A i \in DOMAIN safe_limits :
      ProperRange(safe_limits[i]) =>
        InsideHard(safe_limits[i]) /\ ~ EqualsHard(safe_limits[i])

\* C9 amended: for hard_lower < hard_upper and margins in (0, 1] the
\* interval [min_val, max_val] is a subset of [hard_lower, hard_upper], and
\* it is the whole hard range exactly when both margins are 1.
C9_SubsetStrictUnlessFullMargins ==
  TableBuilt =>
    \A i \in DOMAIN safe_limits :
      ProperRange(safe_limits[i]) =>
        /\ InsideHard(safe_limits[i])
        /\ EqualsHard(safe_limits[i])
             <=> (SoftItem(safe_limits[i][1])[2] = MarginDen
                  /\ SoftItem(safe_limits[i][1])[3] = MarginDen)

\* A table with a joint whose margins are both 1 and one whose margins are
\* not.
C9_Witness ==
  /\ TableBuilt
  /\ \E i \in DOMAIN safe_limits :
       ProperRange(safe_limits[i]) /\ EqualsHard(safe_limits[i])
  /\ \E i \in DOMAIN safe_limits :
       ProperRange(safe_limits[i]) /\ ~ EqualsHard(safe_limits[i])

\* C10: the table holds exactly the joints named by both the hard limits and
\* the soft margins, each once; an entry is
\* (mid - min_margin * range / 2, mid + max_margin * range / 2), written
\* here as a weighted sum of the two hard limits; min_val <= max_val; and
\* margins of 1 give back the hard limits.
C10_TableContents ==
  TableBuilt =>
    /\ Monitored(safe_limits)
         = { soft_limits[i][1] : i \in DOMAIN soft_limits }
           \cap DOMAIN JOINT_LIMITS
    /\ Len(safe_limits) = Cardinality(Monitored(safe_limits))
    /\ \A i \in DOMAIN safe_limits :
         LET name == safe_limits[i][1]
             lower == JOINT_LIMITS[name].lower
             upper == JOINT_LIMITS[name].upper
             min_margin == SoftItem(name)[2]
             max_margin == SoftItem(name)[3]
         IN /\ safe_limits[i][2] = (MarginDen + min_margin) * lower
                                   + (MarginDen - min_margin) * upper
            /\ safe_limits[i][3] = (MarginDen - max_margin) * lower
                                   + (MarginDen + max_margin) * upper
            /\ safe_limits[i][2] <= safe_limits[i][3]
            /\ (min_margin = MarginDen /\ max_margin = MarginDen) =>
                  EqualsHard(safe_limits[i])

\* A table that leaves out a joint of the soft margins and holds a joint
\* with unequal margins next to hard limits that are a proper range.
C10_Witness ==
  /\ TableBuilt
  /\ Len(safe_limits) = 2
  /\ Len(safe_limits) < Len(soft_limits)
  /\ ProperRange(safe_limits[1])
  /\ SoftItem(safe_limits[1][1])[2] # SoftItem(safe_limits[1][1])[3]

\* ------------------------------------------- the hard limits at start-up
\* spot.constants is imported, which parses the robot description, and the
\* generator is constructed from what the import left in JOINT_LIMITS.
LimitAttribs ==
  { [ k \in keys |-> CASE k = "lower" -> -1 [] k = "upper" -> 1 [] OTHER -> 5 ] :
      keys \in SUBSET {"lower", "upper", "velocity"} }

UrdfJoints ==
  { [ name |-> n, limit |-> l ] :
      n \in {"fl_hx", "fl_kn"},
      l \in { << >> } \cup { << a >> : a \in LimitAttribs } }

UrdfFiles ==
  { NoFile, [ exists |-> TRUE, well_formed |-> FALSE, joints |-> << >> ] }
  \cup { [ exists |-> TRUE, well_formed |-> TRUE, joints |-> j ] :
           j \in { << >> } \cup { << a >> : a \in UrdfJoints }
                 \cup { << a, b >> : a \in UrdfJoints, b \in UrdfJoints } }

InitUrdf ==
  /\ urdf \in UrdfFiles
  /\ JOINT_LIMITS = EmptyLimits
  /\ soft_limits = JOINT_SOFT_LIMITS
  /\ safe_limits = << >>
  /\ latest_state = None
  /\ event = FALSE
  /\ context_count = 0
  /\ last_action = [ i \in 1 .. 12 |-> 0 ]
  /\ count = 1
  /\ init_pos = NoPose
  /\ init_load = NoPose
  /\ triggered_safety = FALSE
  /\ safety_proto = None
  /\ positions_map = NoMap
  /\ calls = 0
  /\ returned = 0
  /\ last_return = None
  /\ last_path = "unloaded"
  /\ nominal_runs = 0
  /\ inference_runs = 0
  /\ input_list = << >>
  /\ observing = FALSE
  /\ InitDivider
  /\ InitOrderingAtRest
  /\ InitKeyboard
  /\ InitHandoff
  /\ InitSteps
  /\ InitConfigAtRest

\* spot/constants.py, line 120
ImportConstants ==
  /\ last_path = "unloaded"
  /\ JOINT_LIMITS' = parse_urdf_limits(urdf)
  /\ last_path' = "none"
  /\ UNCHANGED << extVars, ctxVars, genVars, soft_limits, safe_limits,
                  positions_map, calls, returned, last_return, nominal_runs,
                  inference_runs, input_list >>

NextUrdf ==
  \/ ImportConstants
  \/ BuildTable

SpecUrdf == InitUrdf /\ [][NextUrdf]_vars

\* The description names every joint of the soft margins with a lower and
\* an upper limit.
SourceComplete ==
  /\ urdf.exists
  /\ urdf.well_formed
  /\ \A i \in DOMAIN soft_limits :
       \E k \in DOMAIN urdf.joints :
         /\ urdf.joints[k].name = soft_limits[i][1]
         /\ urdf.joints[k].limit # << >>
         /\ {"lower", "upper"} \subseteq DOMAIN urdf.joints[k].limit[1]

\* C11: a generator whose construction has finished monitors every joint the
\* soft-margin table names; with a missing, unparsable or incomplete source
\* of hard limits the construction does not finish at all.
C11_NoSilentlySmallerTable ==
  TableBuilt =>
    /\ SourceComplete
    /\ Monitored(safe_limits) = { soft_limits[i][1] : i \in DOMAIN soft_limits }

\* --------------------------------------------- the divided command stream
\* main() hands the command stream two callables, the generator and
\* EventDivider(context.event, 6); the stream waits for the divider and then
\* invokes the generator, while the state stream calls the StateHandler.
MaxFirings == 14        \* firings of the wake signal in one run

\* The divider is set up one short.
DivisorFive == 6 - 1

\* The divider is set up one long.
DivisorSeven == 6 + 1

\* timeing_policy = EventDivider(context.event, 6)
Divisor == 6

\* What the state stream delivers here: a snapshot inside the envelope or
\* one with a leg joint below its range.
DividerSnapshots ==
  { BasePosition(12),
    [ BasePosition(12) EXCEPT ![12] = RefEntry("hr_kn")[2] - 1 ] }

\* The consumer is inside the divider unless a return waits for its
\* invocation or the generator has raised.
InDivider == released = calls /\ last_path # "raised"

\* StateHandler.__call__ as the state stream calls it, with the firing
\* recorded.
ProducerFires ==
  /\ fired < MaxFirings
  /\ \E position \in DividerSnapshots : StateUpdate(position)
  /\ fired' = fired + 1
  /\ collapsed' = IF event THEN collapsed + 1 ELSE collapsed
  /\ gap_fired' = IF released > calls THEN gap_fired + 1 ELSE gap_fired
  /\ between_releases' = [ between_releases EXCEPT ![released] = @ + 1 ]
  /\ between_calls' = [ between_calls EXCEPT ![calls] = @ + 1 ]
  /\ UNCHANGED << urdf, ordVars, kbdVars, observing, handVars, stepVars,
                  cfgVars, seen, released >>

\* EventDivider.__call__: the thread sleeps until the signal is set, clears
\* it and counts; the Divisor-th wake-up returns control.
DividerWakes ==
  /\ InDivider
  /\ event
  /\ event' = FALSE
  /\ IF seen + 1 = Divisor
     THEN seen' = 0 /\ released' = released + 1
     ELSE seen' = seen + 1 /\ released' = released
  /\ UNCHANGED << latest_state, context_count, genVars, tableVars,
                  positions_map, histVars, urdf, ordVars, kbdVars, observing,
                  handVars, stepVars, cfgVars, fired, collapsed, gap_fired,
                  between_releases, between_calls, input_list >>

\* The command stream invokes the generator once per return of the divider.
CommandStreamInvokes ==
  /\ released > calls
  /\ Call

NextDivider ==
  \/ ProducerFires
  \/ DividerWakes
  \/ CommandStreamInvokes

SpecDivider == Init /\ [][NextDivider]_vars

\* C12 as claimed: whenever the consumer sleeps in the divider with the
\* signal clear, it has been released once for every 6 firings so far.
C12_OncePerSixFirings ==
  (InDivider /\ ~ event) => released = fired \div 6

\* C12 amended: the divider releases once per 6 wake-ups, a wake-up being a
\* firing that found the signal clear; firings that found it set are lost.
\* Hence every firing is either lost, still pending, counted in the current
\* wait or one of the 6 behind a release, and releases never exceed
\* firings / 6.
C12_OncePerSixWakeUps ==
  /\ fired - collapsed = 6 * released + seen + (IF event THEN 1 ELSE 0)
  /\ seen \in 0 .. 5
  /\ 6 * released <= fired

\* The consumer has been released twice although several firings fell in
\* the gap between a return of the divider and the generator's invocation.
C12_Witness ==
  /\ released = 2
  /\ gap_fired >= 2
  /\ collapsed >= 1

\* A firing that finds the signal set leaves nothing behind for the divider:
\* however many firings fall between two wake-ups, they count as one.
BurstIsOneWakeUp ==
  (fired' = fired + 1 /\ event) =>
    (event' /\ seen' = seen /\ released' = released)

\* C13 as claimed, N being 6 here: the producer fires at least 6 times
\* between two consecutive returns of the divider, hence between two
\* consecutive invocations of the generator, and a burst of firings yields
\* at most one permit.
C13_SixFiringsBetweenInvocations ==
  [][ /\ \A k \in 1 .. released' - 1 : between_releases'[k] >= 6
      /\ \A k \in 1 .. calls' - 1 : between_calls'[k] >= 6
      /\ BurstIsOneWakeUp
      /\ released' \in { released, released + 1 } ]_vars

\* C13 amended: the producer fires at least 6 times between two consecutive
\* returns of the divider and at least 5 times between two consecutive
\* invocations of the generator (a firing may fall between a return and its
\* invocation and then counts for the next return); a burst of firings
\* yields at most one permit.
C13_SixFiringsBetweenReturns ==
  [][ /\ \A k \in 1 .. released' - 1 : between_releases'[k] >= 6
      /\ \A k \in 1 .. calls' - 1 : between_calls'[k] >= 6 - 1
      /\ BurstIsOneWakeUp
      /\ released' \in { released, released + 1 } ]_vars

\* Two invocations with only five firings between them, the sixth having
\* fallen between the first return and its invocation.
C13_Witness ==
  /\ calls >= 2
  /\ between_calls[1] = 5
  /\ between_releases[1] >= 6
  /\ gap_fired >= 1

\* ------------------------------------------------ joint orders on their own
\* find_ordering and reorder as functions of their inputs: two name
\* sequences, drawn with and without duplicates and from equal and unequal
\* name sets, and the pair of orders the generator and the simulated robot
\* use.
MaxOrderLen == 3        \* drawn name sequences are at most this long

OrderNames == { "fl_hx", "fr_hx", "hl_hx" }

NameSeqs == UNION { [ 1 .. n -> OrderNames ] : n \in 0 .. MaxOrderLen }

OrderPairs ==
  (NameSeqs \X NameSeqs)
  \cup { << ORDERED_JOINT_NAMES_BASE_ISAAC, ORDERED_JOINT_NAMES_SPOT_BASE >> }

InitOrdering ==
  /\ JOINT_LIMITS = FullLimits
  /\ soft_limits = JOINT_SOFT_LIMITS
  /\ safe_limits = generate_safe_limits(JOINT_LIMITS, soft_limits)
  /\ InitFields
  /\ urdf = NoFile
  /\ observing = FALSE
  /\ InitDivider
  /\ InitKeyboard
  /\ InitHandoff
  /\ InitSteps
  /\ InitConfigAtRest
  /\ \E pair \in OrderPairs :
       /\ ord_source = pair[1]
       /\ ord_target = pair[2]
  /\ ord_map = << >>
  /\ ord_values = [ i \in DOMAIN ord_source |-> 10 * i ]
  /\ ord_there = << >>
  /\ ord_back = << >>

OrderingFrame ==
  UNCHANGED << ctxVars, genVars, tableVars, positions_map, calls, returned,
               last_return, nominal_runs, inference_runs, urdf, divVars,
               kbdVars, observing, handVars, stepVars, cfgVars, input_list,
               ord_source, ord_target >>

\* ordering = find_ordering(source, target)
ConstructMap ==
  /\ last_path = "none"
  /\ ord_map' = find_ordering(ord_source, ord_target)
  /\ last_path' = IF ord_map' = OrderingError THEN "refused" ELSE "mapped"
  /\ UNCHANGED << ord_values, ord_there, ord_back >>
  /\ OrderingFrame

\* reorder(values, ordering)
RemapThere ==
  /\ last_path = "mapped"
  /\ ord_there' = reorder(ord_values, ord_map)
  /\ last_path' = "there"
  /\ UNCHANGED << ord_map, ord_values, ord_back >>
  /\ OrderingFrame

\* reorder(there, find_ordering(target, source))
RemapBack ==
  /\ last_path = "there"
  /\ ord_back' = reorder(ord_there, find_ordering(ord_target, ord_source))
  /\ last_path' = "back"
  /\ UNCHANGED << ord_map, ord_values, ord_there >>
  /\ OrderingFrame

\* _post_process_action_to_spot: the generator remaps its shifted output
\* from the policy's order to the robot's.
PolicyToRobot ==
  /\ last_path = "none"
  /\ ord_source = ORDERED_JOINT_NAMES_BASE_ISAAC
  /\ ord_target = ORDERED_JOINT_NAMES_SPOT_BASE
  /\ \E output \in Outputs, cnt \in 1 .. MaxCalls :
       /\ ord_values' = ShiftedOutput(output, cnt)
       /\ ord_there' = PostProcess(output, cnt)
  /\ ord_map' = isaac_to_spot
  /\ last_path' = "commanded"
  /\ UNCHANGED ord_back
  /\ OrderingFrame

\* IsaacMockSpot.command_update: the simulated robot remaps the command's
\* positions from the robot's order to the policy's.
CommandUpdate ==
  /\ last_path = "commanded"
  /\ ord_back' = command_update(ord_there)
  /\ last_path' = "back"
  /\ UNCHANGED << ord_map, ord_values, ord_there >>
  /\ OrderingFrame

NextOrdering ==
  \/ ConstructMap
  \/ RemapThere
  \/ RemapBack
  \/ PolicyToRobot
  \/ CommandUpdate

SpecOrdering == InitOrdering /\ [][NextOrdering]_vars

\* C14: an array reordered from A to B and then from B to A is the array it
\* was, for every pair of orders a map can be built for, and so is the
\* generator's shifted output after the generator's remap to the robot's
\* order and the simulated robot's remap back.
C14_RoundTrip ==
  last_path = "back" =>
    /\ Len(ord_back) = Len(ord_values)
    /\ \A i \in DOMAIN ord_values : ord_back[i] = ord_values[i]

\* The twelve leg targets of the generator have come back in the policy's
\* order after being moved by the remap to the robot's order.
C14_Witness ==
  /\ last_path = "back"
  /\ Len(ord_values) = 12
  /\ ord_there # ord_values
  /\ ord_back = ord_values
  /\ ord_values[12] # Config.default_joints["hr_kn"]

\* perm is a bijection on the indexes with target[i] = source[perm[i]].
IsOrderingOf(perm, source, target) ==
  /\ Len(source) = Len(target)
  /\ DOMAIN perm = DOMAIN target
  /\ \A i \in DOMAIN perm : perm[i] \in DOMAIN source
  /\ \A i, j \in DOMAIN perm : perm[i] = perm[j] => i = j
  /\ \A k \in DOMAIN source : \E i \in DOMAIN perm : perm[i] = k
  /\ \A i \in DOMAIN perm : target[i] = source[perm[i]]

\* C15: building a map fails with the ordering error for every pair of
\* sequences whose name sets differ or one of which names a joint twice, and
\* a map that is built is a bijection on the indexes.
C15_OrderingErrorOrBijection ==
  last_path # "none" =>
    /\ (\/ Range(ord_source) # Range(ord_target)
        \/ HasDuplicate(ord_source)
        \/ HasDuplicate(ord_target)) => ord_map = OrderingError
    /\ ord_map # OrderingError =>
         IsOrderingOf(ord_map, ord_source, ord_target)

\* A map was refused although both sequences name the same joints: one of
\* them names a joint twice.
C15_Witness ==
  /\ last_path = "refused"
  /\ Range(ord_source) = Range(ord_target)
  /\ HasDuplicate(ord_source)
  /\ ~ HasDuplicate(ord_target)

\* ------------------------------------------------- the observation vector
\* The generator next to the state stream and the keyboard, with the
\* observation vector of every invocation recorded.
MaxPolls == 2           \* runs of Keyboard.listen_loop in one run
MaxObsCalls == 3        \* invocations of the generator in one such run

DeltaVelocity == 1      \* delta_*_velocity = 0.1, in tenths
MaxVelocity == 10       \* max_*_velocity = 1.0, in tenths

Clip(v, lo, hi) == IF v < lo THEN lo ELSE IF v > hi THEN hi ELSE v

\* The keys found pressed by one run of listen_loop.
KeySets ==
  { {}, {"forward"}, {"forward", "left", "yaw_left"},
    {"backward", "right", "yaw_right"}, {"forward", "stop"} }

InitObs ==
  /\ JOINT_LIMITS = FullLimits
  /\ soft_limits = JOINT_SOFT_LIMITS
  /\ safe_limits = generate_safe_limits(JOINT_LIMITS, soft_limits)
  /\ InitFields
  /\ urdf = NoFile
  /\ observing = TRUE
  /\ InitDivider
  /\ InitOrderingAtRest
  /\ InitKeyboard
  /\ InitHandoff
  /\ InitSteps
  /\ InitConfigAtRest

ObsStateHandler ==
  /\ NextTimestamp <= MaxTime
  /\ \E position \in DividerSnapshots : StateUpdate(position)
  /\ UNCHANGED extVars

\* The velocities are written without being capped.
ListenLoopUnclipped(keys) ==
  LET x1 == x_vel + (IF "forward" \in keys THEN DeltaVelocity ELSE 0)
                  - (IF "backward" \in keys THEN DeltaVelocity ELSE 0)
      y1 == y_vel + (IF "left" \in keys THEN DeltaVelocity ELSE 0)
                  - (IF "right" \in keys THEN DeltaVelocity ELSE 0)
      w1 == yaw + (IF "yaw_left" \in keys THEN DeltaVelocity ELSE 0)
                - (IF "yaw_right" \in keys THEN DeltaVelocity ELSE 0)
  IN /\ x_vel' = IF "stop" \in keys THEN 0 ELSE x1
     /\ y_vel' = IF "stop" \in keys THEN 0 ELSE y1
     /\ yaw' = IF "stop" \in keys THEN 0 ELSE w1
     /\ velocity_cmd' = << x_vel', y_vel', yaw' >>
     /\ pressed' = keys

\* Keyboard.listen_loop, lines 113-149, with keys found pressed
ListenLoop(keys) ==
  LET x1 == x_vel + (IF "forward" \in keys THEN DeltaVelocity ELSE 0)
                  - (IF "backward" \in keys THEN DeltaVelocity ELSE 0)
      y1 == y_vel + (IF "left" \in keys THEN DeltaVelocity ELSE 0)
                  - (IF "right" \in keys THEN DeltaVelocity ELSE 0)
      w1 == yaw + (IF "yaw_left" \in keys THEN DeltaVelocity ELSE 0)
                - (IF "yaw_right" \in keys THEN DeltaVelocity ELSE 0)
      x2 == IF "stop" \in keys THEN 0 ELSE x1
      y2 == IF "stop" \in keys THEN 0 ELSE y1
      w2 == IF "stop" \in keys THEN 0 ELSE w1
  IN /\ x_vel' = Clip(x2, - MaxVelocity, MaxVelocity)
     /\ y_vel' = Clip(y2, - MaxVelocity, MaxVelocity)
     /\ yaw' = Clip(w2, - MaxVelocity, MaxVelocity)
     /\ velocity_cmd' = << x_vel', y_vel', yaw' >>
     /\ pressed' = keys

\* Keyboard.listen, lines 97-100: one run of the loop
KeyboardListen ==
  /\ polls < MaxPolls
  /\ polls' = polls + 1
  /\ \E keys \in KeySets : ListenLoop(keys)
  /\ UNCHANGED << ctxVars, genVars, tableVars, positions_map, histVars, urdf,
                  divVars, ordVars, observing, handVars, stepVars, cfgVars,
                  input_list >>

ObservedCall ==
  /\ calls < MaxObsCalls
  /\ Call

NextObs ==
  \/ ObsStateHandler
  \/ KeyboardListen
  \/ ObservedCall

SpecObs == InitObs /\ [][NextObs]_vars

\* The value of leg joint i of the policy's order in a list kept in the
\* robot's order.
PolicyJoint(values, i) ==
  values[IndexOf(ORDERED_JOINT_NAMES_SPOT, ORDERED_JOINT_NAMES_BASE_ISAAC[i])]

\* C20: the vector handed to inference has 48 entries: the base's linear
\* velocity, its angular velocity, the projected gravity, the operator's
\* command as the context holds it, the twelve leg positions, a quarter of
\* the twelve leg velocities and a fifth of the previous nominal cycle's
\* action, which is all zeros in the first nominal cycle.
C20_ObservationVector ==
  [][ inference_runs' = inference_runs + 1 =>
        /\ Len(input_list') = 48
        /\ SubSeq(input_list', 1, 3) = latest_state.base_linear_velocity
        /\ SubSeq(input_list', 4, 6) = latest_state.base_angular_velocity
        /\ SubSeq(input_list', 7, 9) = latest_state.projected_gravity
        /\ SubSeq(input_list', 10, 12) = velocity_cmd
        /\ \A i \in 1 .. 12 :
             /\ input_list'[12 + i]
                  = PolicyJoint(latest_state.position, i)
                    - Config.default_joints[ORDERED_JOINT_NAMES_BASE_ISAAC[i]]
             /\ 4 * input_list'[24 + i] = PolicyJoint(latest_state.velocity, i)
             /\ 5 * input_list'[36 + i] = last_action[i]
             /\ (nominal_runs = 0 => input_list'[36 + i] = 0) ]_vars

\* Inference has run on a vector that holds a command of the operator and
\* the action of the nominal cycle before.
C20_Witness ==
  /\ last_path = "nominal"
  /\ nominal_runs >= 2
  /\ input_list[10] # 0
  /\ input_list[11] # input_list[10]
  /\ input_list[38] # 0

\* ------------------------------------------------- the snapshot hand-off
\* IsaacMockSpot.set_state builds a state message statement by statement and
\* hands it to the StateHandler, while the consumer reads whatever the
\* context refers to.  Messages are objects: heap[id] is the content of the
\* message with identity id, and latest_state is the content seen through
\* the context's reference.
MaxMessages == 3        \* calls of set_state in one run

\* RobotStateStreamResponse(): every field at its default.
NewStateMsg ==
  [ kinematic |-> << >>, position |-> << >>, velocity |-> << >>,
    load |-> << >> ]

\* The content behind a reference; identity 0 is Python None.
Through(h, r) == IF r = 0 THEN None ELSE h[r]

\* The rest of the model stays as it is while the producer runs.
ProducerFrame ==
  UNCHANGED << context_count, genVars, tableVars, positions_map, histVars,
               input_list, urdf, ordVars, kbdVars, observing, stepVars,
               cfgVars, seen, released, gap_fired, between_releases,
               between_calls >>

\* A write into the message the producer holds, seen through every
\* reference to it.
WriteStateMsg(msg) ==
  /\ heap' = [ heap EXCEPT ![state_msg] = msg ]
  /\ latest_state' = Through(heap', ref)
  /\ UNCHANGED << state_msg, ref, published, observed, event, fired,
                  collapsed >>
  /\ ProducerFrame

\* The message of the previous call is filled again.
SetStateReuses ==
  /\ prod_pc = "idle"
  /\ Len(heap) < MaxMessages
  /\ IF state_msg = 0
     THEN /\ heap' = Append(heap, NewStateMsg)
          /\ state_msg' = Len(heap) + 1
     ELSE /\ heap' = [ heap EXCEPT ![state_msg] = NewStateMsg ]
          /\ state_msg' = state_msg
  /\ latest_state' = Through(heap', ref)
  /\ prod_pc' = "l46"
  /\ UNCHANGED << ref, published, observed, event, fired, collapsed >>
  /\ ProducerFrame

\* set_state, line 45: self._state_msg = RobotStateStreamResponse()
SetStateAllocates ==
  /\ prod_pc = "idle"
  /\ Len(heap) < MaxMessages
  /\ heap' = Append(heap, NewStateMsg)
  /\ state_msg' = Len(heap) + 1
  /\ prod_pc' = "l46"
  /\ UNCHANGED << latest_state, ref, published, observed, event, fired,
                  collapsed >>
  /\ ProducerFrame

\* set_state, lines 46-67: the body's rotation and its two velocities
SetStateKinematic ==
  /\ prod_pc = "l46"
  /\ WriteStateMsg([ heap[state_msg] EXCEPT
                       !.kinematic = << 1, 0, 0, 0, 100 + Len(heap),
                                        200 + Len(heap) >> ])
  /\ prod_pc' = "l68"

\* set_state, line 68: joint_states.position.extend(joint_pos)
SetStatePosition ==
  /\ prod_pc = "l68"
  /\ \E joint_pos \in DividerSnapshots :
       WriteStateMsg([ heap[state_msg] EXCEPT
                         !.position = heap[state_msg].position \o joint_pos ])
  /\ prod_pc' = "l69"

\* set_state, line 69: joint_states.velocity.extend(joint_vel)
SetStateVelocity ==
  /\ prod_pc = "l69"
  /\ WriteStateMsg([ heap[state_msg] EXCEPT
                       !.velocity = heap[state_msg].velocity
                                    \o [ i \in 1 .. 12 |-> 4 * i ] ])
  /\ prod_pc' = "l70"

\* set_state, line 70: joint_states.load.extend([0] * 19)
SetStateLoad ==
  /\ prod_pc = "l70"
  /\ WriteStateMsg([ heap[state_msg] EXCEPT
                       !.load = heap[state_msg].load
                                \o [ i \in 1 .. 19 |-> 0 ] ])
  /\ prod_pc' = "l72"

\* set_state, line 72, and StateHandler.__call__, line 53:
\* self._context.latest_state = state
HandlerStores ==
  /\ prod_pc = "l72"
  /\ ref' = state_msg
  /\ published' = published \cup { state_msg }
  /\ latest_state' = Through(heap, state_msg)
  /\ prod_pc' = "l54"
  /\ UNCHANGED << heap, state_msg, observed, event, fired, collapsed >>
  /\ ProducerFrame

\* StateHandler.__call__, line 54: self._context.event.set()
HandlerFires ==
  /\ prod_pc = "l54"
  /\ event' = TRUE
  /\ fired' = fired + 1
  /\ collapsed' = IF event THEN collapsed + 1 ELSE collapsed
  /\ prod_pc' = "idle"
  /\ UNCHANGED << heap, state_msg, ref, published, observed, latest_state >>
  /\ ProducerFrame

\* The consumer reads the snapshot through the context, at any moment once
\* there is one.
ConsumerReads ==
  /\ ref # 0
  /\ observed # latest_state
  /\ observed' = latest_state
  /\ UNCHANGED << heap, state_msg, ref, published, prod_pc, latest_state,
                  event, fired, collapsed >>
  /\ ProducerFrame

\* The consumer's wait on the wake signal.
HandoffWakes ==
  /\ DividerWakes
  /\ UNCHANGED prod_pc

NextHandoff ==
  \/ SetStateAllocates
  \/ SetStateKinematic
  \/ SetStatePosition
  \/ SetStateVelocity
  \/ SetStateLoad
  \/ HandlerStores
  \/ HandlerFires
  \/ ConsumerReads
  \/ HandoffWakes

SpecHandoff == Init /\ [][NextHandoff]_vars

\* Every field of the message has been written, each once.
Populated(msg) ==
  /\ Len(msg.kinematic) = 6
  /\ Len(msg.position) = 12
  /\ Len(msg.velocity) = 12
  /\ Len(msg.load) = 19

\* C21: the message the context refers to is fully populated; a message is
\* published by making the context refer to a message never published
\* before; the wake signal fires when the context already refers to the
\* producer's newest message; no published message is ever written again;
\* and what the consumer reads is fully populated.
C21_WholeSnapshotHandOff ==
  [][ /\ ref' # 0 => (Populated(heap'[ref']) /\ latest_state' = heap'[ref'])
      /\ ref' # ref => (ref' \notin published /\ ref' = state_msg)
      /\ fired' = fired + 1 =>
           (ref = state_msg /\ ref' = ref /\ Populated(heap[ref]))
      /\ \A id \in published : heap'[id] = heap[id]
      /\ observed' # None => Populated(observed') ]_vars

\* The consumer has read the second snapshot while the producer is half-way
\* through writing the third.
C21_Witness ==
  /\ ref = 2
  /\ observed = heap[2]
  /\ state_msg = 3
  /\ prod_pc = "l69"
  /\ ~ Populated(heap[3])

\* ------------------------------------------------------ load_configuration
\* orbit_configuration.load_configuration with the joint names of
\* python/orbit/orbit_constants.py.  A dict value is << >> for None and
\* << v >> for the number v.
ORDERED_JOINT_NAMES_BASE_ORBIT ==
  << "fl_hx", "fr_hx", "hl_hx", "hr_hx", "fl_hy", "fr_hy", "hl_hy", "hr_hy",
     "fl_kn", "fr_kn", "hl_kn", "hr_kn" >>

ORDERED_JOINT_NAMES_ARM_ORBIT ==
  << "arm_sh0", "arm_sh1", "arm_el0", "arm_el1", "arm_wr0", "arm_wr1",
     "arm_f1x" >>

ORDERED_JOINT_NAMES_ORBIT ==
  ORDERED_JOINT_NAMES_BASE_ORBIT \o ORDERED_JOINT_NAMES_ARM_ORBIT

\* A joint name as the characters a regular expression runs over.
Chars(name) ==
  CASE name = "fl_hx" -> << "f", "l", "_", "h", "x" >>
    [] name = "fr_hx" -> << "f", "r", "_", "h", "x" >>
    [] name = "hl_hx" -> << "h", "l", "_", "h", "x" >>
    [] name = "hr_hx" -> << "h", "r", "_", "h", "x" >>
    [] name = "fl_hy" -> << "f", "l", "_", "h", "y" >>
    [] name = "fr_hy" -> << "f", "r", "_", "h", "y" >>
    [] name = "hl_hy" -> << "h", "l", "_", "h", "y" >>
    [] name = "hr_hy" -> << "h", "r", "_", "h", "y" >>
    [] name = "fl_kn" -> << "f", "l", "_", "k", "n" >>
    [] name = "fr_kn" -> << "f", "r", "_", "k", "n" >>
    [] name = "hl_kn" -> << "h", "l", "_", "k", "n" >>
    [] name = "hr_kn" -> << "h", "r", "_", "k", "n" >>
    [] name = "arm_sh0" -> << "a", "r", "m", "_", "s", "h", "0" >>
    [] name = "arm_sh1" -> << "a", "r", "m", "_", "s", "h", "1" >>
    [] name = "arm_el0" -> << "a", "r", "m", "_", "e", "l", "0" >>
    [] name = "arm_el1" -> << "a", "r", "m", "_", "e", "l", "1" >>
    [] name = "arm_wr0" -> << "a", "r", "m", "_", "w", "r", "0" >>
    [] name = "arm_wr1" -> << "a", "r", "m", "_", "w", "r", "1" >>
    [] name = "arm_f1x" -> << "a", "r", "m", "_", "f", "1", "x" >>

AllChars == UNION { Range(Chars(n)) : n \in Range(ORDERED_JOINT_NAMES_ORBIT) }

\* A compiled expression is a sequence of items: one character of a class,
\* or any run of characters (".*").
Lit(c) == [ cls |-> { c }, star |-> FALSE ]

Cls(S) == [ cls |-> S, star |-> FALSE ]

AnyRun == [ cls |-> AllChars, star |-> TRUE ]

\* regex.match(key) from item i and character j on: the expression has to
\* match at the start of the key.
RECURSIVE ReMatchFrom(_, _, _, _)
ReMatchFrom(regex, i, chars, j) ==
  IF i > Len(regex) THEN TRUE
  ELSE IF regex[i].star
       THEN \/ ReMatchFrom(regex, i + 1, chars, j)
            \/ /\ j <= Len(chars)
               /\ chars[j] \in regex[i].cls
               /\ ReMatchFrom(regex, i, chars, j + 1)
       ELSE /\ j <= Len(chars)
            /\ chars[j] \in regex[i].cls
            /\ ReMatchFrom(regex, i + 1, chars, j + 1)

\* dict_from_lists(keys, values)
dict_from_lists(keys, values) ==
  [ n \in Range(keys) |-> values[IndexOf(keys, n)] ]

\* set_matching(d, regex, value): every key the expression matches gets the
\* value.
set_matching(d, regex, value) ==
  [ n \in DOMAIN d |->
      IF ReMatchFrom(regex, 1, Chars(n), 1) THEN << value >> ELSE d[n] ]

\* The loop of lines 102-106 from group i on.
RECURSIVE SetActuatorsFrom(_, _, _)
SetActuatorsFrom(actuators, i, gains) ==
  IF i > Len(actuators) THEN gains
  ELSE LET regex == actuators[i].joint_names_expr[1]
       IN SetActuatorsFrom(actuators, i + 1,
            [ joint_kp |-> set_matching(gains.joint_kp, regex,
                                        actuators[i].stiffness),
              joint_kd |-> set_matching(gains.joint_kd, regex,
                                        actuators[i].damping) ])

\* The loop of lines 110-112 from expression i on.
RECURSIVE SetDefaultsFrom(_, _, _)
SetDefaultsFrom(default_joint_data, i, joint_offsets) ==
  IF i > Len(default_joint_data) THEN joint_offsets
  ELSE SetDefaultsFrom(default_joint_data, i + 1,
         set_matching(joint_offsets, default_joint_data[i][1],
                      default_joint_data[i][2]))

\* load_configuration(env_config), lines 97-123
load_configuration(config) ==
  LET nones == dict_from_lists(ORDERED_JOINT_NAMES_ORBIT,
                               [ i \in 1 .. 19 |-> << >> ])
      gains == SetActuatorsFrom(config.actuators, 1,
                                [ joint_kp |-> nones, joint_kd |-> nones ])
      joint_offsets == SetDefaultsFrom(config.joint_pos, 1, nones)
  IN [ kp |-> gains.joint_kp,
       kd |-> gains.joint_kd,
       default_joints |-> joint_offsets,
       standing_height |-> config.pos[3],
       action_scale |-> config.scale ]

\* Training configurations: actuator groups and default-position
\* expressions as the robot's training environment writes them, any
\* selection of them, in the file's order.
ActuatorGroups ==
  << [ joint_names_expr |-> << << AnyRun >> >>,
       stiffness |-> 40, damping |-> 10 ],
     [ joint_names_expr |->
         << << AnyRun, Lit("_"), Lit("h"), Cls({ "x", "y" }) >> >>,
       stiffness |-> 60, damping |-> 15 ],
     [ joint_names_expr |-> << << AnyRun, Lit("_"), Lit("k"), Lit("n") >> >>,
       stiffness |-> 61, damping |-> 16 ],
     [ joint_names_expr |->
         << << Lit("a"), Lit("r"), Lit("m"), Lit("_"), AnyRun >> >>,
       stiffness |-> 120, damping |-> 20 ] >>

DefaultJointData ==
  << << << Cls({ "f", "h" }), Lit("l"), Lit("_"), Lit("h"), Lit("x") >>, 1 >>,
     << << Cls({ "f", "h" }), Lit("r"), Lit("_"), Lit("h"), Lit("x") >>, -1 >>,
     << << Lit("f"), Cls({ "r", "l" }), Lit("_"), Lit("h"), Lit("y") >>, 9 >>,
     << << Lit("h"), Cls({ "r", "l" }), Lit("_"), Lit("h"), Lit("y") >>, 11 >>,
     << << AnyRun, Lit("_"), Lit("k"), Lit("n") >>, -15 >>,
     << << Lit("a"), Lit("r"), Lit("m"), Lit("_"), AnyRun >>, 0 >> >>

\* The items of s whose index is in keep, in the order of s.
RECURSIVE Selected(_, _, _)
Selected(s, keep, i) ==
  IF i > Len(s) THEN << >>
  ELSE (IF i \in keep THEN << s[i] >> ELSE << >>) \o Selected(s, keep, i + 1)

EnvConfigs ==
  { [ actuators |-> Selected(ActuatorGroups, a, 1),
      joint_pos |-> Selected(DefaultJointData, d, 1),
      pos |-> << 0, 0, 5 >>,
      scale |-> 2 ] :
      a \in SUBSET DOMAIN ActuatorGroups, d \in SUBSET DOMAIN DefaultJointData }

InitConfig ==
  /\ JOINT_LIMITS = FullLimits
  /\ soft_limits = JOINT_SOFT_LIMITS
  /\ safe_limits = generate_safe_limits(JOINT_LIMITS, soft_limits)
  /\ InitFields
  /\ urdf = NoFile
  /\ observing = FALSE
  /\ InitDivider
  /\ InitOrderingAtRest
  /\ InitKeyboard
  /\ InitHandoff
  /\ InitSteps
  /\ env_config \in EnvConfigs
  /\ policy_config = None

\* main, line 31: config = load_configuration(env_config)
LoadConfiguration ==
  /\ last_path = "none"
  /\ policy_config' = load_configuration(env_config)
  /\ last_path' = "loaded"
  /\ UNCHANGED << ctxVars, genVars, tableVars, positions_map, calls, returned,
                  last_return, nominal_runs, inference_runs, input_list, urdf,
                  divVars, ordVars, kbdVars, observing, handVars, stepVars,
                  env_config >>

NextConfig == LoadConfiguration

SpecConfig == InitConfig /\ [][NextConfig]_vars

\* C23: whatever load_configuration returns gives every one of the 19 joint
\* names a value in kp, kd and the default positions; a configuration whose
\* expressions leave a joint unmatched yields no PolicyConfig.
C23_NoNullEntry ==
  last_path = "loaded" =>
    \A n \in Range(ORDERED_JOINT_NAMES_ORBIT) :
      /\ policy_config.kp[n] # << >>
      /\ policy_config.kd[n] # << >>
      /\ policy_config.default_joints[n] # << >>

\* ------------------------------------------ the invocation step by step
\* __call__ next to a state stream that may deliver a snapshot between any
\* two of its statements.  The invocation is cut where it fetches
\* self._context.latest_state: lines 150, 151, 157, 162 and, inside
\* create_proto, 287.  used records the acquisition time of the snapshot
\* each fetch found.
MaxStepCalls == 3       \* invocations of the generator in one such run

StepFrame ==
  UNCHANGED << latest_state, event, tableVars, urdf, divVars, ordVars,
               kbdVars, observing, handVars, cfgVars >>

\* __call__, lines 149-150: the first fetch, for the initial positions
InvocationBegins ==
  /\ gen_pc = "idle"
  /\ latest_state # None
  /\ calls < MaxStepCalls
  /\ last_path # "raised"
  /\ calls' = calls + 1
  /\ IF init_pos = NoPose
     THEN /\ init_pos' = latest_state.position
          /\ used' = [ part \in { "pose" } |->
                         latest_state.acquisition_timestamp ]
          /\ gen_pc' = "l151"
     ELSE /\ init_pos' = init_pos
          /\ used' = NoMap
          /\ gen_pc' = "l153"
  /\ UNCHANGED << context_count, last_action, count, init_load,
                  triggered_safety, safety_proto, positions_map, returned,
                  last_return, last_path, nominal_runs, inference_runs,
                  input_list >>
  /\ StepFrame

\* __call__, line 151: the second fetch, for the initial loads
FetchInitLoad ==
  /\ gen_pc = "l151"
  /\ init_load' = latest_state.load
  /\ used' = [ part \in DOMAIN used \cup { "load" } |->
                 IF part = "load" THEN latest_state.acquisition_timestamp
                 ELSE used[part] ]
  /\ gen_pc' = "l153"
  /\ UNCHANGED << context_count, last_action, count, init_pos,
                  triggered_safety, safety_proto, positions_map, histVars,
                  input_list >>
  /\ StepFrame

\* __call__, lines 153-154: the cached safety command is returned
ReturnLatched ==
  /\ gen_pc = "l153"
  /\ IsLatched
  /\ last_return' = LatchedCommand
  /\ returned' = returned + 1
  /\ last_path' = "latched"
  /\ gen_pc' = "idle"
  /\ UNCHANGED << context_count, genVars, positions_map, calls, nominal_runs,
                  inference_runs, input_list, used >>
  /\ StepFrame

\* __call__, line 157: the third fetch, for the observation vector
FetchObservation ==
  /\ gen_pc = "l153"
  /\ ~ IsLatched
  /\ input_list' = collect_inputs(latest_state, velocity_cmd, last_action)
  /\ used' = [ part \in DOMAIN used \cup { "observation" } |->
                 IF part = "observation"
                 THEN latest_state.acquisition_timestamp
                 ELSE used[part] ]
  /\ gen_pc' = "l159"
  /\ UNCHANGED << context_count, genVars, positions_map, histVars >>
  /\ StepFrame

\* __call__, lines 159-167: the fourth fetch, for the position map, and the
\* safety check on it
FetchPositionsAndCheck ==
  /\ gen_pc = "l159"
  /\ positions_map' = ZipPositions(latest_state.position)
  /\ triggered_safety' = check_safety(safe_limits, positions_map')
  /\ used' = [ part \in DOMAIN used \cup { "check" } |->
                 IF part = "check" THEN latest_state.acquisition_timestamp
                 ELSE used[part] ]
  /\ gen_pc' = IF triggered_safety' THEN "l171" ELSE "l178"
  /\ UNCHANGED << context_count, last_action, count, init_pos, init_load,
                  safety_proto, histVars, input_list >>
  /\ StepFrame

\* __call__, lines 171-176: the hold command from the position map, with
\* the fifth fetch inside create_proto (line 287)
BuildHoldCommand ==
  /\ gen_pc = "l171"
  /\ LET hold_pos == HoldPos(positions_map)
         proto == create_proto(hold_pos, count, latest_state)
     IN /\ safety_proto' = proto
        /\ last_return' = proto
  /\ used' = [ part \in DOMAIN used \cup { "hold", "end_time" } |->
                 CASE part = "hold" -> used["check"]
                   [] part = "end_time" -> latest_state.acquisition_timestamp
                   [] OTHER -> used[part] ]
  /\ returned' = returned + 1
  /\ last_path' = "latching"
  /\ gen_pc' = "idle"
  /\ UNCHANGED << context_count, last_action, count, init_pos, init_load,
                  triggered_safety, positions_map, calls, nominal_runs,
                  inference_runs, input_list >>
  /\ StepFrame

\* __call__, lines 178-189: inference on the observation vector and the
\* command from its output, with the fifth fetch inside create_proto
BuildPolicyCommand(output) ==
  /\ gen_pc = "l178"
  /\ inference_runs' = inference_runs + 1
  /\ LET action == PostProcess(output, count)
         proto == create_proto(action, count, latest_state)
     IN last_return' = proto
  /\ used' = [ part \in DOMAIN used \cup { "end_time" } |->
                 IF part = "end_time" THEN latest_state.acquisition_timestamp
                 ELSE used[part] ]
  /\ last_action' = output
  /\ count' = count + 1
  /\ context_count' = context_count + 1
  /\ returned' = returned + 1
  /\ nominal_runs' = nominal_runs + 1
  /\ last_path' = "nominal"
  /\ gen_pc' = "idle"
  /\ UNCHANGED << init_pos, init_load, triggered_safety, safety_proto,
                  positions_map, calls, input_list >>
  /\ StepFrame

\* __call__, line 178: the inference session raises
InferenceRaises ==
  /\ gen_pc = "l178"
  /\ inference_runs' = inference_runs + 1
  /\ last_path' = "raised"
  /\ gen_pc' = "idle"
  /\ UNCHANGED << context_count, genVars, positions_map, calls, returned,
                  last_return, nominal_runs, input_list, used >>
  /\ StepFrame

\* StateHandler.__call__, whenever the state stream calls it
StreamDelivers ==
  /\ ObsStateHandler
  /\ UNCHANGED gen_pc

NextInterleaved ==
  \/ StreamDelivers
  \/ InvocationBegins
  \/ FetchInitLoad
  \/ ReturnLatched
  \/ FetchObservation
  \/ FetchPositionsAndCheck
  \/ BuildHoldCommand
  \/ \E output \in Outputs : BuildPolicyCommand(output)
  \/ InferenceRaises

SpecInterleaved == Init /\ [][NextInterleaved]_vars

\* C24: when an invocation returns a command it has built, the observation
\* vector, the safety check, the hold positions and the end time were all
\* read from one snapshot.
C24_OneSnapshotPerInvocation ==
  [][ (gen_pc # "idle" /\ gen_pc' = "idle"
       /\ last_path' \in { "nominal", "latching" }) =>
        \A a, b \in DOMAIN used' \cap { "observation", "check", "hold",
                                        "end_time" } :
          used'[a] = used'[b] ]_vars

\* ------------------------------------------------ the first invocation
\* The start of a session: the StateHandler statement by statement next to
\* the divider and the command stream, from a context that holds no
\* snapshot yet.
\* The two statements the other way round.
HandlerOrderSignalFirst == << "set", "store" >>

\* StateHandler.__call__, lines 53-54, in the order they are written
HandlerOrder == << "store", "set" >>

\* One statement of the handler: the store of line 53 or the set of line 54.
HandlerStatement(statement) ==
  IF statement = "store"
  THEN /\ \E position \in DividerSnapshots :
            latest_state' = Snapshot(position, NextTimestamp)
       /\ UNCHANGED << event, divVars >>
  ELSE /\ event' = TRUE
       /\ fired' = fired + 1
       /\ collapsed' = IF event THEN collapsed + 1 ELSE collapsed
       /\ gap_fired' = IF released > calls THEN gap_fired + 1 ELSE gap_fired
       /\ between_releases' = [ between_releases EXCEPT ![released] = @ + 1 ]
       /\ between_calls' = [ between_calls EXCEPT ![calls] = @ + 1 ]
       /\ UNCHANGED << latest_state, seen, released >>

HandlerFrame ==
  UNCHANGED << context_count, genVars, tableVars, positions_map, histVars,
               input_list, urdf, ordVars, kbdVars, observing, heap, state_msg,
               ref, published, observed, stepVars, cfgVars >>

\* The state stream calls the handler, which runs its first statement.
HandlerEnters ==
  /\ prod_pc = "idle"
  /\ fired < MaxFirings
  /\ HandlerStatement(HandlerOrder[1])
  /\ prod_pc' = "l54"
  /\ HandlerFrame

\* The handler runs its second statement and returns.
HandlerLeaves ==
  /\ prod_pc = "l54"
  /\ HandlerStatement(HandlerOrder[2])
  /\ prod_pc' = "idle"
  /\ HandlerFrame

NextStartup ==
  \/ HandlerEnters
  \/ HandlerLeaves
  \/ DividerWakes
  \/ CommandStreamInvokes

SpecStartup == Init /\ [][NextStartup]_vars

\* C25: the context holds a snapshot whenever the wake signal is set,
\* whenever the divider has counted a wake-up and whenever the divider has
\* returned and the generator is about to be invoked; every invocation
\* finds a snapshot.
C25_NeverInvokedUninitialized ==
  [][ /\ event' => latest_state' # None
      /\ (seen' > 0 \/ released' > 0) => latest_state' # None
      /\ released' > calls' => latest_state' # None
      /\ calls' = calls + 1 => (released > calls /\ latest_state # None)
    ]_vars

\* The divider has returned for the first time and the generator has not
\* been invoked yet, while the producer is between storing the seventh
\* snapshot and signalling it.
C25_Witness ==
  /\ released = 1
  /\ calls = 0
  /\ fired = Divisor
  /\ prod_pc = "l54"
  /\ latest_state # None
  /\ latest_state.acquisition_timestamp = Divisor + 1

\* ------------------------------------------------ the keyboard on its own
\* Keyboard.listen polling long enough for a held key to reach the cap.
MaxKbdPolls == 12       \* runs of Keyboard.listen_loop in one such run

\* The key combinations one run may find pressed: none, single keys,
\* opposite keys together, and the stop key alone or with others.
KbdKeySets ==
  { {}, { "forward" }, { "backward" }, { "forward", "backward" },
    { "forward", "left", "yaw_left" }, { "backward", "right", "yaw_right" },
    { "stop" }, { "forward", "left", "yaw_right", "stop" } }

\* Keyboard.listen, lines 97-100
KeyboardPolls ==
  /\ polls < MaxKbdPolls
  /\ polls' = polls + 1
  /\ \E keys \in KbdKeySets : ListenLoop(keys)
  /\ UNCHANGED << ctxVars, genVars, tableVars, positions_map, histVars, urdf,
                  divVars, ordVars, observing, handVars, stepVars, cfgVars,
                  input_list >>

NextKeyboard == KeyboardPolls

SpecKeyboard == Init /\ [][NextKeyboard]_vars

\* C27: after every run of the polling loop the command in the context is
\* the keyboard's three velocities, x within [-max_backward, max_forward],
\* y within [-max_lateral, max_lateral] and yaw within [-max_yaw, max_yaw];
\* a run that finds the stop key pressed writes the zero command whatever
\* else is pressed.
C27_CommandWithinBounds ==
  [][ polls' = polls + 1 =>
        /\ velocity_cmd' = << x_vel', y_vel', yaw' >>
        /\ - MaxVelocity <= velocity_cmd'[1]
        /\ velocity_cmd'[1] <= MaxVelocity
        /\ - MaxVelocity <= velocity_cmd'[2]
        /\ velocity_cmd'[2] <= MaxVelocity
        /\ - MaxVelocity <= velocity_cmd'[3]
        /\ velocity_cmd'[3] <= MaxVelocity
        /\ "stop" \in pressed' => velocity_cmd' = << 0, 0, 0 >> ]_vars

\* After more runs than it takes to reach the caps, a run that found
\* forward, left and yaw-left pressed has left the command on the three
\* caps.
C27_Witness ==
  /\ polls > MaxVelocity \div DeltaVelocity
  /\ pressed = { "forward", "left", "yaw_left" }
  /\ velocity_cmd = << MaxVelocity, MaxVelocity, MaxVelocity >>

====
